---- MODULE Spec2Model ----
(***************************************************************************)
(* CleanGuard: the review-history store (StorageManager, TimelineProvider),*)
(* the rule catalogs (SecurityRules, PerformanceRules, StyleRules), the    *)
(* policy checks of Analyzer.analyzeFile (ConfigLoader), the metrics       *)
(* (MetricsCalculator) and the workspace scans in batches (Scanner,        *)
(* Analyzer.analyzeWorkspace).                                             *)
(*                                                                         *)
(* Eight specifications share the module:                                  *)
(*   SpecHistory  the history store under overlapping saveReview calls     *)
(*   SpecHistorySerial  the history store, calls following one another     *)
(*   SpecRules    one SecurityRules instance analysing texts in turn       *)
(*   SpecScan     Analyzer.analyzeFile on documents of a workspace         *)
(*   SpecMetrics  MetricsCalculator.calculateMetrics on a text             *)
(*   SpecBatch    scanWorkspace / analyzeWorkspace over the files found    *)
(*   SpecConfig   ConfigLoader.loadConfig under settings and .cleanguardrc *)
(*   SpecSave     the onDidSaveTextDocument listener of activate           *)
(* Each leaves the variables of the other components at their initial     *)
(* values.                                                                 *)
(***************************************************************************)
EXTENDS Integers, Sequences, FiniteSets, TLC

VARIABLES
    \* ---- history store (storage.ts, timelineView.ts)
    clock,          \* the wall clock, in ticks (TicksPerDay ticks a UTC day)
    file,           \* the document .vscode/review-history.json
    pc,             \* per saveReview caller: where its call stands
    review,         \* per caller: the ReviewHistory record it built
    history,        \* per caller: the TimelineData its loadHistory returned
    readOk,         \* per caller: its loadHistory met no read fault
    writeOk,        \* per caller: its saveHistory wrote the document
    timelineData,   \* TimelineProvider.timelineData (the last summary loaded)
    fresh,          \* timelineData was loaded at the present clock
    lastRead,       \* what the load behind timelineData met in the store
    raised,         \* an exception escaped saveReview / loadHistory
    saves,          \* number of saveReview calls started (capped)
    \* ---- rule catalog (security rules)
    lastIndex,      \* RegExp.lastIndex of every /g pattern of the instance
    ruleText,       \* the text of the last analyze call
    ruleIssues,     \* the Issue[] the last analyze call returned
    prevText,       \* the text of the call before it
    prevIssues,     \* the Issue[] of the call before it
    calls,          \* number of analyze calls made (capped)
    \* ---- analyzeFile (analyzer.ts, configLoader.ts)
    scanPath,       \* workspace-relative path of the last document analysed
    scanSize,       \* its size on disk in bytes
    scanRan,        \* what analyzeFile ran on it: the linter, rule categories
    scanExcluded,   \* what isFileExcluded answered for it
    scanIssues,     \* the Issue[] analyzeFile returned for it
    catalogIssues,  \* the Issue[] each rule catalog returned to that call
    scanned,        \* number of analyzeFile calls made (capped)
    config,         \* Analyzer.config: null until the first analyzeFile
    \* ---- MetricsCalculator (metrics.ts)
    metricsText,    \* the text handed to calculateMetrics
    metricsOut,     \* what calculateMetrics did: [threw, value]
    measured,       \* calculateMetrics has been called
    \* ---- workspace scans (scanner.ts, analyzer.ts)
    mode,           \* the call made: scanWorkspace or analyzeWorkspace
    files,          \* the files findFiles returned, in order
    bpc,            \* where the call stands: idle, await (a batch), returned
    batchAt,        \* the loop variable i: files before the present batch
    task,           \* per file: where its task stands
    returned,       \* per file: what its task returned: <<>> (null) or <<result>>
    fileResults,    \* fileResults of scanWorkspace, results of analyzeWorkspace
    totals,         \* the running totals of scanWorkspace
    scanResult,     \* what the call returned
    \* ---- ConfigLoader (configLoader.ts)
    defaultConfig,  \* ConfigLoader.defaultConfig
    rcFile,         \* the file .cleanguardrc of the workspace
    loadedConfig,   \* what the last loadConfig returned
    lastSettings,   \* the editor settings that call met
    lastFile,       \* the .cleanguardrc that call met
    loads,          \* number of loadConfig calls made (capped)
    \* ---- the save listener (extension.ts)
    userSettings,   \* the editor's cleanguard.* settings
    document,       \* the document of the last save event
    listenerConfig, \* the listener's "config": the settings it read
    lpc,            \* where the listener stands: idle, or awaiting analyzeFile
    analyses,       \* number of analyzer.analyzeFile calls the listener made
    diagnostics,    \* number of diagnostics shown for the document
    statusCount,    \* the issue count the status bar shows
    reviewCalls,    \* number of timelineProvider.saveReview calls it made
    saveEvents      \* number of save events delivered (capped)

historyVars == <<clock, file, pc, review, history, readOk, writeOk,
                 timelineData, fresh, lastRead, raised, saves>>
ruleVars == <<lastIndex, ruleText, ruleIssues, prevText, prevIssues, calls>>
scanVars == <<scanPath, scanSize, scanRan, scanExcluded, scanIssues,
              catalogIssues, scanned, config>>
metricVars == <<metricsText, metricsOut, measured>>
batchVars == <<mode, files, bpc, batchAt, task, returned, fileResults,
               totals, scanResult>>
configVars == <<defaultConfig, rcFile, loadedConfig, lastSettings, lastFile, loads>>
saveVars == <<userSettings, document, listenerConfig, lpc, analyses, diagnostics,
              statusCount, reviewCalls, saveEvents>>
vars == <<historyVars, ruleVars, scanVars, metricVars, batchVars, configVars,
          saveVars>>

(***************************************************************************)
(* Generic helpers                                                         *)
(***************************************************************************)
Range(s) == {s[i] : i \in DOMAIN s}

\* Math.round (half up) of the quotient num / den of two naturals, den > 0
MathRoundDiv(num, den) == (2 * num + den) \div (2 * den)

\* Array.prototype.reduce((sum, x) => sum + x, 0)
RECURSIVE ReduceSum(_)
ReduceSum(s) == IF Len(s) = 0 THEN 0 ELSE ReduceSum(SubSeq(s, 1, Len(s) - 1)) + s[Len(s)]

(***************************************************************************)
(* History store: constants, bounds and inputs                             *)
(***************************************************************************)
\* StorageManager.maxHistoryDays ("Free tier limit")
maxHistoryDays == 30

\* Clock resolution: ticks in one UTC calendar day
TicksPerDay == 2
\* saveReview calls made in one run
MaxSaves == 2
\* saveReview calls made in one run of a single caller, one after the other
MaxSerialSaves == 6

RetentionTicks == maxHistoryDays * TicksPerDay
\* The instants the clock visits: two ticks of the first day, and the same
\* two ticks 30 days later, when the retention window of tick 0 has closed
\* and that of tick 1 has not
Times == {0, 1, RetentionTicks, RetentionTicks + 1}

\* The callers of TimelineProvider.saveReview: p1, and p2 whose calls start
\* while a call of p1 is under way (a second save event)
Procs == {"p1", "p2"}
\* path.basename(fileName) of the document each caller saved
FileOf(p) == IF p = "p1" THEN "a.ts" ELSE "b.ts"

\* JavaScript NaN (calculateDuplication of a text without candidate lines)
\* and the null that JSON.stringify writes for it
NaN == -1
Null == -2

\* (issues.length, metrics) handed to saveReview: a short clean file whose
\* duplication is NaN, and a complex one
ReviewInputs ==
    { [issueCount |-> 1,
       metrics |-> [complexity |-> 1, maintainability |-> 100, duplication |-> NaN]],
      [issueCount |-> 2,
       metrics |-> [complexity |-> 25, maintainability |-> 65, duplication |-> 20]] }

ZeroSummary ==
    [totalReviews |-> 0, totalIssues |-> 0, averageQualityScore |-> 0,
     trendData |-> <<>>]

\* The TimelineData loadHistory returns when it read nothing
EmptyTimeline == [reviews |-> <<>>, summary |-> ZeroSummary]

\* What the history file can hold: no file, text that is no JSON, the JSON
\* value null, an object without "reviews", an object whose "reviews" is no
\* array, and an object with a record list (kind "ok")
Doc(kind, reviews, summary) == [kind |-> kind, reviews |-> reviews, summary |-> summary]
MissingDoc == Doc("missing", <<>>, ZeroSummary)
InitialDocs ==
    { Doc(k, <<>>, ZeroSummary) :
        k \in {"missing", "garbage", "null", "noList", "badList", "ok"} }

(***************************************************************************)
(* StorageManager: pure parts                                              *)
(***************************************************************************)
\* x || 0
OrZero(x) == IF x = Null \/ x = NaN THEN 0 ELSE x

Max(a, b) == IF a >= b THEN a ELSE b

\* Math.round(max(0,100-c*5)*0.3 + m*0.4 + max(0,100-d)*0.3) of a stored
\* record's metrics, each read with "|| 0"
qualityScoreOf(metrics) ==
    LET complexity == OrZero(metrics.complexity)
        maintainability == OrZero(metrics.maintainability)
        duplication == OrZero(metrics.duplication)
    IN  MathRoundDiv(3 * Max(0, 100 - complexity * 5)
                       + 4 * maintainability
                       + 3 * Max(0, 100 - duplication), 10)

\* new Date(review.timestamp).toISOString().split('T')[0]: the UTC date
dateOf(timestamp) == timestamp \div TicksPerDay

\* generateTrendData, first loop: the Map date -> {issues, qualityScores},
\* kept as the sequence of its entries in insertion order
RECURSIVE dailyDataOf(_)
dailyDataOf(reviews) ==
    IF Len(reviews) = 0 THEN <<>>
    ELSE LET before == dailyDataOf(SubSeq(reviews, 1, Len(reviews) - 1))
             r == reviews[Len(reviews)]
             date == dateOf(r.timestamp)
             at == {i \in DOMAIN before : before[i].date = date}
         IN  IF at = {}
             THEN Append(before, [date |-> date,
                                  issues |-> <<r.issueCount>>,
                                  qualityScores |-> <<qualityScoreOf(r.metrics)>>])
             ELSE [i \in DOMAIN before |->
                     IF i \in at
                     THEN [before[i] EXCEPT
                             !.issues = Append(@, r.issueCount),
                             !.qualityScores = Append(@, qualityScoreOf(r.metrics))]
                     ELSE before[i]]

\* .map(([date, data]) => ({date, issues: round(avg), qualityScore: round(avg)}))
trendPointOf(entry) ==
    [date |-> entry.date,
     issues |-> MathRoundDiv(ReduceSum(entry.issues), Len(entry.issues)),
     qualityScore |-> MathRoundDiv(ReduceSum(entry.qualityScores),
                                   Len(entry.qualityScores))]

\* .sort((a, b) => a.date.localeCompare(b.date)): a stable insertion sort
RECURSIVE sortByDate(_)
sortByDate(points) ==
    IF Len(points) = 0 THEN <<>>
    ELSE LET sorted == sortByDate(SubSeq(points, 1, Len(points) - 1))
             x == points[Len(points)]
             n == Cardinality({i \in DOMAIN sorted : sorted[i].date <= x.date})
         IN  SubSeq(sorted, 1, n) \o <<x>> \o SubSeq(sorted, n + 1, Len(sorted))

\* Array.from(dailyData.entries()).map(...): one point per date, in the
\* order the dates were first met
trendPoints(reviews) ==
    LET daily == dailyDataOf(reviews)
    IN  [i \in DOMAIN daily |-> trendPointOf(daily[i])]

\* Variant: the points left in insertion order
generateTrendDataUnsorted(reviews) == trendPoints(reviews)

generateTrendData(reviews) == sortByDate(trendPoints(reviews))

\* Variant: the mean truncated instead of rounded
averageFloor(scores) ==
    IF Len(scores) > 0 THEN ReduceSum(scores) \div Len(scores) ELSE 0

\* qualityScores.length > 0 ? Math.round(sum / length) : 0
averageQualityScoreOf(scores) ==
    IF Len(scores) > 0 THEN MathRoundDiv(ReduceSum(scores), Len(scores)) ELSE 0

\* processTimelineData(parsed): [threw, value]. "data.reviews" of null throws;
\* "data.reviews || []" is [] for an object without the field; reduce of a
\* value that is no array throws
processTimelineData(data) ==
    IF data.kind \in {"null", "badList"}
    THEN [threw |-> TRUE, value |-> EmptyTimeline]
    ELSE LET reviews == IF data.kind = "ok" THEN data.reviews ELSE <<>>
             qualityScores == [i \in DOMAIN reviews |-> qualityScoreOf(reviews[i].metrics)]
         IN  [threw |-> FALSE,
              value |->
                [reviews |-> reviews,
                 summary |->
                   [totalReviews |-> Len(reviews),
                    totalIssues |-> ReduceSum([i \in DOMAIN reviews |-> reviews[i].issueCount]),
                    averageQualityScore |-> averageQualityScoreOf(qualityScores),
                    trendData |-> generateTrendData(reviews)]]]

\* The body of loadHistory's try block: [threw, found, value]
loadHistoryTry(doc, fault) ==
    IF doc.kind = "missing"
    THEN [threw |-> FALSE, found |-> FALSE, value |-> EmptyTimeline]   \* existsSync false
    ELSE IF fault \/ doc.kind = "garbage"
    THEN [threw |-> TRUE, found |-> TRUE, value |-> EmptyTimeline]     \* readFileSync / JSON.parse
    ELSE LET r == processTimelineData(doc)
         IN  [threw |-> r.threw, found |-> TRUE, value |-> r.value]

\* Variant: loadHistory without its catch
loadHistoryNoCatch(doc, fault) ==
    LET r == loadHistoryTry(doc, fault)
    IN  [threw |-> r.threw, value |-> r.value]

\* loadHistory: the catch logs and falls through to the zero-valued return
loadHistory(doc, fault) ==
    LET r == loadHistoryTry(doc, fault)
    IN  IF r.threw \/ ~r.found
        THEN [threw |-> FALSE, value |-> EmptyTimeline]
        ELSE [threw |-> FALSE, value |-> r.value]

\* What a load met in the store
readKindOf(doc, fault) ==
    IF doc.kind = "missing" THEN "missing"
    ELSE IF fault THEN "readError"
    ELSE doc.kind

\* JSON.stringify of a number: NaN is written as null
jsonNumber(x) == IF x = NaN THEN Null ELSE x

jsonReview(r) ==
    [r EXCEPT !.metrics = [complexity |-> jsonNumber(@.complexity),
                           maintainability |-> jsonNumber(@.maintainability),
                           duplication |-> jsonNumber(@.duplication)]]

\* JSON.stringify(data, null, 2) of a TimelineData: reviews and summary
jsonStringify(data) ==
    Doc("ok", [i \in DOMAIN data.reviews |-> jsonReview(data.reviews[i])], data.summary)

\* How writeFileSync can end: it wrote the text; it threw before the file
\* was opened (mkdirSync or the open failing); it threw after the open with
\* flag 'w' had truncated the file (the disk filling up)
WriteFaults == {"none", "open", "write"}

\* saveHistory: mkdirSync and writeFileSync inside try/catch; what they throw
\* is logged. The file is written in place: a fault after the open leaves
\* text that is no JSON
saveHistory(doc, data, fault) ==
    CASE fault = "none"  -> [file |-> jsonStringify(data), threw |-> FALSE]
      [] fault = "open"  -> [file |-> doc, threw |-> FALSE]
      [] fault = "write" -> [file |-> Doc("garbage", <<>>, ZeroSummary), threw |-> FALSE]

\* Variant: a filter that keeps the record stamped exactly 30 days ago
keepReviewInclusive(timestamp, thirtyDaysAgo) == timestamp >= thirtyDaysAgo

\* new Date(item.timestamp) > thirtyDaysAgo
keepReview(timestamp, thirtyDaysAgo) == timestamp > thirtyDaysAgo

\* Variant: push in place of unshift, the new record goes to the end
pruneAfterPush(loaded, new, now) ==
    LET thirtyDaysAgo == now - RetentionTicks
    IN  SelectSeq(loaded.reviews \o <<new>>,
                  LAMBDA item : keepReview(item.timestamp, thirtyDaysAgo))

\* history.reviews.unshift(review); history.reviews = history.reviews.filter(...)
pruneAfterUnshift(loaded, new, now) ==
    LET thirtyDaysAgo == now - RetentionTicks
    IN  SelectSeq(<<new>> \o loaded.reviews,
                  LAMBDA item : keepReview(item.timestamp, thirtyDaysAgo))

(***************************************************************************)
(* History store: state and operations                                     *)
(***************************************************************************)
NoReview == [timestamp |-> 0, fileName |-> "", issueCount |-> 0,
             metrics |-> [complexity |-> 0, maintainability |-> 0, duplication |-> 0]]

InitHistory ==
    /\ clock = 0
    /\ file \in InitialDocs
    /\ pc = [p \in Procs |-> "idle"]
    /\ review = [p \in Procs |-> NoReview]
    /\ history = [p \in Procs |-> EmptyTimeline]
    /\ readOk = [p \in Procs |-> TRUE]
    /\ writeOk = [p \in Procs |-> TRUE]
    /\ timelineData = EmptyTimeline      \* null until the first load resolves
    /\ fresh = FALSE
    /\ lastRead = "none"
    /\ raised = FALSE
    /\ saves = 0

\* Time passes
Tick ==
    /\ \E t \in Times : t > clock /\ clock' = t
    /\ fresh' = FALSE
    /\ UNCHANGED <<file, pc, review, history, readOk, writeOk,
                   timelineData, lastRead, raised, saves>>

\* StorageManager.saveReview up to its first await: the record is built and
\* stamped, loadHistory reads the document
saveReviewLoadFrom(p, inputs, limit) ==
    /\ pc[p] \in {"idle", "done"}
    /\ p = "p2" => pc["p1"] \in {"loaded", "saved"}
    /\ saves < limit
    /\ saves' = saves + 1
    /\ \E input \in inputs, fault \in BOOLEAN :
         LET r == loadHistory(file, fault)
         IN  /\ review' = [review EXCEPT ![p] =
                    [timestamp |-> clock, fileName |-> FileOf(p),
                     issueCount |-> input.issueCount, metrics |-> input.metrics]]
             /\ readOk' = [readOk EXCEPT ![p] =
                    readKindOf(file, fault) \in {"missing", "noList", "ok"}]
             /\ writeOk' = [writeOk EXCEPT ![p] = FALSE]
             /\ IF r.threw
                THEN \* caught by saveReview's own catch: the call ends
                     /\ history' = [history EXCEPT ![p] = EmptyTimeline]
                     /\ pc' = [pc EXCEPT ![p] = "saved"]
                ELSE /\ history' = [history EXCEPT ![p] = r.value]
                     /\ pc' = [pc EXCEPT ![p] = "loaded"]
    /\ UNCHANGED <<clock, file, timelineData, fresh, lastRead, raised>>

saveReviewLoad(p) == saveReviewLoadFrom(p, ReviewInputs, MaxSaves)

\* saveReview after "await this.loadHistory()": unshift, prune against the
\* clock as it is now, and saveHistory, which writes synchronously
saveReviewSave(p) ==
    /\ pc[p] = "loaded"
    /\ \E fault \in WriteFaults :
         LET data == [history[p] EXCEPT
                        !.reviews = pruneAfterUnshift(history[p], review[p], clock)]
             res == saveHistory(file, data, fault)
         IN  /\ file' = res.file
             /\ history' = [history EXCEPT ![p] = data]
             /\ writeOk' = [writeOk EXCEPT ![p] = (fault = "none")]
             /\ pc' = [pc EXCEPT ![p] = "saved"]   \* res.threw is caught by saveReview
    /\ UNCHANGED <<clock, review, readOk, timelineData, fresh, lastRead, raised, saves>>

\* saveReview returns; TimelineProvider.saveReview goes on to
\* loadTimelineData, which reads the document again
saveReviewReturn(p) ==
    /\ pc[p] = "saved"
    /\ \E fault \in BOOLEAN :
         LET r == loadHistory(file, fault)
         IN  /\ IF r.threw
                THEN /\ raised' = TRUE
                     /\ UNCHANGED timelineData
                ELSE /\ timelineData' = r.value
                     /\ UNCHANGED raised
             /\ lastRead' = readKindOf(file, fault)
    /\ fresh' = TRUE
    /\ pc' = [pc EXCEPT ![p] = "done"]
    /\ history' = [history EXCEPT ![p] = EmptyTimeline]
    /\ UNCHANGED <<clock, file, review, readOk, writeOk, saves>>

\* TimelineProvider.loadTimelineData on its own (the constructor, a refresh):
\* a summarize with no record call before it
loadTimelineData ==
    /\ \E fault \in BOOLEAN :
         LET r == loadHistory(file, fault)
         IN  /\ IF r.threw
                THEN /\ raised' = TRUE
                     /\ UNCHANGED timelineData
                ELSE /\ timelineData' = r.value
                     /\ UNCHANGED raised
             /\ lastRead' = readKindOf(file, fault)
    /\ fresh' = TRUE
    /\ UNCHANGED <<clock, file, pc, review, history, readOk, writeOk, saves>>

NextHistory ==
    \/ Tick
    \/ \E p \in Procs : saveReviewLoad(p)
    \/ \E p \in Procs : saveReviewSave(p)
    \/ \E p \in Procs : saveReviewReturn(p)
    \/ loadTimelineData

\* One caller whose record calls follow one another: each call starts after
\* the call before it has returned
SerialInputs ==
    { [issueCount |-> 1,
       metrics |-> [complexity |-> 1, maintainability |-> 100, duplication |-> NaN]] }

recordSerial == saveReviewLoadFrom("p1", SerialInputs, MaxSerialSaves)

\* TimelineProvider.getChildren: this.timelineData.reviews.slice(0, 5)
RecentShown == 5

recentReviews(td) ==
    SubSeq(td.reviews, 1, IF Len(td.reviews) < RecentShown THEN Len(td.reviews) ELSE RecentShown)

(***************************************************************************)
(* Rule catalog: texts                                                     *)
(*                                                                         *)
(* A text is a sequence of lines (code.split('\n')), a line a sequence of  *)
(* tokens, each token a fixed piece of source text:                        *)
(*   pw    password="a"                  key   apikey="b"                  *)
(*   sql   SELECT a FROM t WHERE b+c     html  .innerHTML=                 *)
(*   eval  eval(                         dw    document.write(             *)
(*   con   console.log(                  sp    one blank                   *)
(*   len   for(i=0;i<a.length;i++)       num   n=42                        *)
(***************************************************************************)
Tokens == {"pw", "key", "sql", "html", "eval", "dw", "con", "sp", "len", "num"}

\* Number of characters of a token's text
TokenLen(tok) ==
    CASE tok = "pw" -> 12
      [] tok = "key" -> 10
      [] tok = "sql" -> 25
      [] tok = "html" -> 11
      [] tok = "eval" -> 5
      [] tok = "dw" -> 15
      [] tok = "con" -> 12
      [] tok = "len" -> 24
      [] tok = "num" -> 4
      [] OTHER -> 1

\* Longest text analysed, in lines
MaxLines == 2
\* analyze calls made on one SecurityRules instance
MaxCalls == 2

SampleLines ==
    { <<"pw">>, <<"sp", "pw">>, <<"pw", "sp", "key">>,
      <<"eval">>, <<"html">>, <<"sql">>, <<"sp">> }

Texts == UNION { [1 .. n -> SampleLines] : n \in 1 .. MaxLines }

RECURSIVE LineLen(_)
LineLen(line) ==
    IF Len(line) = 0 THEN 0
    ELSE LineLen(SubSeq(line, 1, Len(line) - 1)) + TokenLen(line[Len(line)])

\* Index of the first character of the i-th token of a line (0-based)
OffsetOf(line, i) == LineLen(SubSeq(line, 1, i - 1))

(***************************************************************************)
(* SecurityRules                                                           *)
(***************************************************************************)
\* The three tables of /gi patterns, each pattern named by its first
\* alternative
secretPatterns == <<"password", "apikey", "secret", "privatekey", "accesskey">>
sqlInjectionPatterns == <<"select", "insert", "update", "delete">>
xssPatterns == <<"innerHTML", "outerHTML", "documentWrite", "eval">>

GlobalPatterns == Range(secretPatterns) \cup Range(sqlInjectionPatterns)
                    \cup Range(xssPatterns)

\* The token whose text a pattern matches
TokenMatches(pattern, tok) ==
    \/ pattern = "password" /\ tok = "pw"
    \/ pattern = "apikey" /\ tok = "key"
    \/ pattern = "select" /\ tok = "sql"
    \/ pattern = "innerHTML" /\ tok = "html"
    \/ pattern = "documentWrite" /\ tok = "dw"
    \/ pattern = "eval" /\ tok = "eval"

\* End of the match that starts with the i-th token: the SQL patterns end in
\* ".*" and run to the end of the line
MatchEnd(pattern, line, i) ==
    IF pattern \in Range(sqlInjectionPatterns)
    THEN LineLen(line)
    ELSE OffsetOf(line, i) + TokenLen(line[i])

\* Variant: test of a pattern without the g flag, which keeps no lastIndex
testFresh(pattern, line, from) ==
    LET hits == {i \in DOMAIN line : TokenMatches(pattern, line[i])}
    IN  IF hits = {}
        THEN [found |-> FALSE, lastIndex |-> 0]
        ELSE [found |-> TRUE, lastIndex |-> 0]

\* RegExp.prototype.test of a pattern with the g flag: the search starts at
\* lastIndex; a match leaves lastIndex at its end, a failure resets it to 0
test(pattern, line, from) ==
    LET hits == {i \in DOMAIN line :
                    TokenMatches(pattern, line[i]) /\ OffsetOf(line, i) >= from}
    IN  IF hits = {}
        THEN [found |-> FALSE, lastIndex |-> 0]
        ELSE LET first == CHOOSE i \in hits : \A k \in hits : i <= k
             IN  [found |-> TRUE, lastIndex |-> MatchEnd(pattern, line, first)]

Issue(line, rule, severity, category) ==
    [line |-> line, rule |-> rule, severity |-> severity, category |-> category]

\* lines.forEach((line, index) => { for (const pattern of patterns)
\*     if (pattern.test(line)) issues.push(...) }), the first k tests of it:
\* [issues, lastIndex]
RECURSIVE checkPatterns(_, _, _, _, _, _)
checkPatterns(patterns, rule, severity, lines, li, k) ==
    IF k = 0 THEN [issues |-> <<>>, lastIndex |-> li]
    ELSE LET before == checkPatterns(patterns, rule, severity, lines, li, k - 1)
             index == (k - 1) \div Len(patterns)
             pattern == patterns[((k - 1) % Len(patterns)) + 1]
             t == test(pattern, lines[index + 1], before.lastIndex[pattern])
         IN  [issues |-> IF t.found
                         THEN Append(before.issues,
                                     Issue(index + 1, rule, severity, "security"))
                         ELSE before.issues,
              lastIndex |-> [before.lastIndex EXCEPT ![pattern] = t.lastIndex]]

checkAll(patterns, rule, severity, lines, li) ==
    checkPatterns(patterns, rule, severity, lines, li, Len(lines) * Len(patterns))

\* Variant: a detector that walks the lines from the last to the first
linesWithReversed(toks, rule, severity, category, lines) ==
    LET hit == SelectSeq([i \in DOMAIN lines |-> Len(lines) + 1 - i],
                         LAMBDA i : \E j \in DOMAIN lines[i] : lines[i][j] \in toks)
    IN  [n \in DOMAIN hit |-> Issue(hit[n], rule, severity, category)]

\* A detector built on a regex literal without the g flag: one Issue per
\* line holding a token of the set
linesWith(toks, rule, severity, category, lines) ==
    LET hit == SelectSeq([i \in DOMAIN lines |-> i],
                         LAMBDA i : \E j \in DOMAIN lines[i] : lines[i][j] \in toks)
    IN  [n \in DOMAIN hit |-> Issue(hit[n], rule, severity, category)]

\* SecurityRules.analyze: [issues, lastIndex]
securityAnalyze(lines, li) ==
    LET secrets == checkAll(secretPatterns, "no-hardcoded-secrets", "error", lines, li)
        sql == checkAll(sqlInjectionPatterns, "no-sql-injection", "error", lines,
                        secrets.lastIndex)
        xss == checkAll(xssPatterns, "no-xss-vulnerability", "warning", lines,
                        sql.lastIndex)
    IN  [issues |-> secrets.issues \o sql.issues \o xss.issues
                      \o linesWith({"eval"}, "no-eval", "error", "security", lines)
                      \o linesWith({"html"}, "no-innerHTML", "warning", "security", lines),
         lastIndex |-> xss.lastIndex]

InitRules ==
    /\ lastIndex = [pattern \in GlobalPatterns |-> 0]
    /\ ruleText = <<>>
    /\ ruleIssues = <<>>
    /\ prevText = <<>>
    /\ prevIssues = <<>>
    /\ calls = 0

\* One call of analyze on the instance
analyze ==
    /\ calls < MaxCalls
    /\ \E text \in Texts :
         LET r == securityAnalyze(text, lastIndex)
         IN  /\ ruleText' = text
             /\ ruleIssues' = r.issues
             /\ lastIndex' = r.lastIndex
    /\ prevText' = ruleText
    /\ prevIssues' = ruleIssues
    /\ calls' = calls + 1

NextRules == analyze

(***************************************************************************)
(* PerformanceRules and StyleRules: detectors on regex literals without    *)
(* the g flag, run rule after rule, each over all lines.  Of their rules   *)
(* the tokens above trigger no-document-write, cache-array-length,         *)
(* no-console-statements and no-magic-numbers.                             *)
(***************************************************************************)
performanceAnalyze(lines) ==
    linesWith({}, "no-for-in-on-arrays", "warning", "performance", lines)
      \o linesWith({"dw"}, "no-document-write", "warning", "performance", lines)
      \o linesWith({}, "no-dom-queries-in-loops", "warning", "performance", lines)
      \o linesWith({"len"}, "cache-array-length", "info", "performance", lines)
      \o linesWith({}, "check-event-listener-cleanup", "warning", "performance", lines)
      \o linesWith({}, "batch-dom-manipulation", "info", "performance", lines)
      \o linesWith({}, "no-sync-xhr", "error", "performance", lines)
      \o linesWith({}, "avoid-large-object-literals", "info", "performance", lines)
      \o linesWith({}, "no-string-concat-in-loops", "warning", "performance", lines)

styleAnalyze(lines) ==
    linesWith({}, "prefer-let-const", "warning", "style", lines)
      \o linesWith({}, "prefer-strict-equality", "warning", "style", lines)
      \o linesWith({"con"}, "no-console-statements", "info", "style", lines)
      \o linesWith({}, "no-debugger-statements", "warning", "style", lines)
      \o linesWith({"num"}, "no-magic-numbers", "info", "style", lines)

(***************************************************************************)
(* ConfigLoader                                                            *)
(*                                                                         *)
(* A glob pattern, a regular expression and a path are sequences of        *)
(* symbols: the characters "*", "/", "." and words (node_modules, src, ..).*)
(***************************************************************************)
defaultExcludePatterns ==
    << <<"*", "*", "/", "node_modules", "/", "*", "*">>,
       <<"*", "*", "/", "dist", "/", "*", "*">>,
       <<"*", "*", "/", "build", "/", "*", "*">>,
       <<"*", "*", "/", ".", "git", "/", "*", "*">> >>

\* ConfigLoader.defaultConfig.maxFileSize, in KB
maxFileSize == 500

\* The configurations loadConfig hands to the analyzer: the defaults, with
\* "enabled" and the three rule categories as the settings give them
LoadedConfigs ==
    { [loaded |-> TRUE, enabled |-> e,
       rules |-> [security |-> s, performance |-> pf, style |-> st],
       excludePatterns |-> defaultExcludePatterns, maxFileSize |-> maxFileSize] :
        e \in BOOLEAN, s \in BOOLEAN, pf \in BOOLEAN, st \in BOOLEAN }

NoConfig ==
    [loaded |-> FALSE, enabled |-> TRUE,
     rules |-> [security |-> TRUE, performance |-> TRUE, style |-> TRUE],
     excludePatterns |-> defaultExcludePatterns, maxFileSize |-> maxFileSize]

\* pattern.replace(/\*\*/g, '.*'): every pair of stars, left to right,
\* becomes the two characters "." and "*"
RECURSIVE replaceDoubleStar(_)
replaceDoubleStar(pattern) ==
    IF Len(pattern) = 0 THEN <<>>
    ELSE IF Len(pattern) >= 2 /\ pattern[1] = "*" /\ pattern[2] = "*"
    THEN <<".", "*">> \o replaceDoubleStar(SubSeq(pattern, 3, Len(pattern)))
    ELSE <<pattern[1]>> \o replaceDoubleStar(SubSeq(pattern, 2, Len(pattern)))

\* .replace(/\*/g, '[^/]*'): every star left, those the first replacement
\* wrote included, becomes the class "[^/]*"
RECURSIVE replaceStar(_)
replaceStar(pattern) ==
    IF Len(pattern) = 0 THEN <<>>
    ELSE <<IF pattern[1] = "*" THEN "[^/]*" ELSE pattern[1]>>
           \o replaceStar(SubSeq(pattern, 2, Len(pattern)))

\* new RegExp(...) of the rewritten pattern: "." any one symbol, "[^/]*" any
\* run of symbols other than "/", every other symbol itself
toRegex(pattern) == replaceStar(replaceDoubleStar(pattern))

RECURSIVE matchFrom(_, _, _, _)
matchFrom(re, i, str, j) ==
    IF i > Len(re) THEN TRUE
    ELSE IF re[i] = "[^/]*"
    THEN \/ matchFrom(re, i + 1, str, j)
         \/ j <= Len(str) /\ str[j] # "/" /\ matchFrom(re, i, str, j + 1)
    ELSE IF re[i] = "."
    THEN j <= Len(str) /\ matchFrom(re, i + 1, str, j + 1)
    ELSE j <= Len(str) /\ str[j] = re[i] /\ matchFrom(re, i + 1, str, j + 1)

\* regex.test(relativePath): an unanchored search
regexTest(re, str) == \E j \in 1 .. Len(str) + 1 : matchFrom(re, 1, str, j)

\* isFileExcluded: some pattern's regex matches the relative path
isFileExcluded(relativePath, cfg) ==
    \E n \in DOMAIN cfg.excludePatterns :
        regexTest(toRegex(cfg.excludePatterns[n]), relativePath)

\* isFileTooLarge: stats.size / 1024 > config.maxFileSize
isFileTooLarge(size, cfg) == size > cfg.maxFileSize * 1024

(***************************************************************************)
(* Analyzer.analyzeFile                                                    *)
(***************************************************************************)
\* Deepest directory of a document, in components
MaxDepth == 2
\* analyzeFile calls made on one Analyzer
MaxScans == 2

DirNames == {"node_modules", "src", "dist"}
Dirs == UNION { [1 .. n -> DirNames] : n \in 0 .. MaxDepth }

\* path.relative(workspace root, document.fileName) of a document in the
\* directories dirs: the components joined by "/", no leading separator
RECURSIVE relativePath(_)
relativePath(dirs) ==
    IF Len(dirs) = 0 THEN <<"index", ".", "js">>
    ELSE <<dirs[1], "/">> \o relativePath(SubSeq(dirs, 2, Len(dirs)))

\* The open documents: their text and their size on disk in bytes
ScanTexts ==
    { << <<"pw">> >>, << <<"dw">>, <<"con">> >>, << <<"sp">> >>,
      << <<"len", "sp", "num", "sp", "eval">>,
         <<"dw", "sp", "con", "sp", "pw", "sp", "eval">> >> }
ScanSizes == {512000, 512001}

\* What eslint.lintText reports: nothing, a message, or it throws
LintOutcomes ==
    { [threw |-> FALSE, messages |-> <<>>],
      [threw |-> FALSE,
       messages |-> << [line |-> 1, severity |-> 2, ruleId |-> "eqeqeq"],
                       [line |-> 1, severity |-> 1, ruleId |-> "no-eval"] >>],
      [threw |-> TRUE, messages |-> <<>>] }

\* categorizeRule: by substring of the rule id
categorizeRule(ruleId) ==
    IF ruleId \in {"no-eval", "no-innerHTML"} THEN "security"
    ELSE IF ruleId \in {"no-for-in", "no-document-write"} THEN "performance"
    ELSE "style"

lintIssues(outcome) ==
    IF outcome.threw THEN <<>>
    ELSE [i \in DOMAIN outcome.messages |->
            Issue(outcome.messages[i].line, outcome.messages[i].ruleId,
                  IF outcome.messages[i].severity = 2 THEN "error" ELSE "warning",
                  categorizeRule(outcome.messages[i].ruleId))]

fileTooLargeIssue == Issue(1, "file-too-large", "info", "performance")

NoCatalogIssues == [security |-> <<>>, performance |-> <<>>, style |-> <<>>]

InitScan ==
    /\ scanPath = <<>>
    /\ scanSize = 0
    /\ scanRan = {}
    /\ scanExcluded = FALSE
    /\ scanIssues = <<>>
    /\ catalogIssues = NoCatalogIssues
    /\ scanned = 0
    /\ config = NoConfig

\* Variant: the size check made before the exclusion check
policySizeFirst(cfg, excluded, tooLarge) ==
    IF ~cfg.enabled THEN "disabled"
    ELSE IF tooLarge THEN "tooLarge"
    ELSE IF excluded THEN "excluded"
    ELSE "detect"

\* The early returns of analyzeFile, in the order of the code: excluded and
\* tooLarge are what isFileExcluded and isFileTooLarge answer for the file
policyOf(cfg, excluded, tooLarge) ==
    IF ~cfg.enabled THEN "disabled"
    ELSE IF excluded THEN "excluded"
    ELSE IF tooLarge THEN "tooLarge"
    ELSE "detect"

\* analyzeFile past its policy checks: the Issue[] returned, the lastIndex
\* the security patterns are left with, and what was run
analyzeFileOutcome(policy, cfg, lint, text, li) ==
    LET sec == securityAnalyze(text, li)
        catalogs ==
            [security |-> IF cfg.rules.security THEN sec.issues ELSE <<>>,
             performance |->
                 IF cfg.rules.performance THEN performanceAnalyze(text) ELSE <<>>,
             style |-> IF cfg.rules.style THEN styleAnalyze(text) ELSE <<>>]
    IN  IF policy = "tooLarge"
        THEN [issues |-> <<fileTooLargeIssue>>, lastIndex |-> li, ran |-> {},
              catalogs |-> NoCatalogIssues]
        ELSE IF policy # "detect"
        THEN [issues |-> <<>>, lastIndex |-> li, ran |-> {},
              catalogs |-> NoCatalogIssues]
        ELSE [issues |->
                lintIssues(lint) \o catalogs.security \o catalogs.performance
                  \o catalogs.style,
              lastIndex |-> IF cfg.rules.security THEN sec.lastIndex ELSE li,
              ran |-> {"eslint"}
                        \cup (IF cfg.rules.security THEN {"security"} ELSE {})
                        \cup (IF cfg.rules.performance THEN {"performance"} ELSE {})
                        \cup (IF cfg.rules.style THEN {"style"} ELSE {}),
              catalogs |-> catalogs]

\* analyzeFile(document) for a configuration and the answer isFileExcluded
\* gives for the document: the three policy checks; then the linter and the
\* enabled rule categories, the security rules moving their patterns'
\* lastIndex
analyzeFileWith(cfg, excluded, path, size, text, lint) ==
    LET policy == policyOf(cfg, excluded, isFileTooLarge(size, cfg))
        out == analyzeFileOutcome(policy, cfg, lint, text, lastIndex)
    IN  /\ config' = cfg
        /\ scanPath' = path
        /\ scanSize' = size
        /\ scanExcluded' = excluded
        /\ scanIssues' = out.issues
        /\ catalogIssues' = out.catalogs
        /\ scanRan' = out.ran
        /\ lastIndex' = out.lastIndex

\* The configuration analyzeFile works with (loaded on the first call and
\* kept), paired with what isFileExcluded answers for the path under it
configChoices(path) ==
    { <<cfg, isFileExcluded(path, cfg)>> :
        cfg \in (IF config.loaded THEN {config} ELSE LoadedConfigs) }

\* A call of analyzeFile on an open document (the scanFile command)
analyzeFile ==
    /\ scanned < MaxScans
    /\ \E dirs \in Dirs :
         \E path \in {relativePath(dirs)} :
         \E ce \in configChoices(path) :
         \E size \in ScanSizes, text \in ScanTexts, lint \in LintOutcomes :
             analyzeFileWith(ce[1], ce[2], path, size, text, lint)
    /\ scanned' = scanned + 1
    /\ UNCHANGED <<ruleText, ruleIssues, prevText, prevIssues, calls>>

NextScan == analyzeFile

(***************************************************************************)
(* MetricsCalculator (metrics.ts)                                          *)
(***************************************************************************)
\* Lines of the texts measured
MaxMetricLines == 3

\* The pieces a line is made of: a blank, and
\*   ret     return x;
\*   branch  if (a) return b;
\*   chain   if (a) return 1; else if (b) return 2; else if (c) return 3; else f();
\*   cmt     // note
CodeTokens == {"sp", "ret", "branch", "chain", "cmt"}

\* [length, operators, operands] of a piece: the characters of
\* /[+\-*/=<>!&|^%~?:]/ and the words of /\b[a-zA-Z_$][a-zA-Z0-9_$]*\b/
CodeTokenStats(tok) ==
    CASE tok = "sp"     -> [len |-> 1,  operators |-> 0, operands |-> 0]
      [] tok = "ret"    -> [len |-> 9,  operators |-> 0, operands |-> 2]
      [] tok = "branch" -> [len |-> 16, operators |-> 0, operands |-> 4]
      [] tok = "chain"  -> [len |-> 70, operators |-> 0, operands |-> 13]
      [] tok = "cmt"    -> [len |-> 7,  operators |-> 2, operands |-> 1]

CodeLines ==
    { <<>>, <<"ret">>, <<"branch">>, <<"sp", "branch">>, <<"chain">>, <<"cmt">> }

\* code.split('\n') of the texts measured: at least the one empty line of ""
CodeTexts == UNION { [1 .. n -> CodeLines] : n \in 1 .. MaxMetricLines }
EmptyCode == << <<>> >>

RECURSIVE LineStat(_, _)
LineStat(line, field) ==
    IF Len(line) = 0 THEN 0
    ELSE CodeTokenStats(line[1])[field] + LineStat(SubSeq(line, 2, Len(line)), field)

RECURSIVE CodeStat(_, _)
CodeStat(code, field) ==
    IF Len(code) = 0 THEN 0
    ELSE LineStat(code[1], field) + CodeStat(SubSeq(code, 2, Len(code)), field)

\* code.length: the lines and the newlines between them
CodeLength(code) == CodeStat(code, "len") + Len(code) - 1

\* line.trim(): blanks at both ends removed
RECURSIVE trim(_)
trim(line) ==
    IF Len(line) = 0 THEN line
    ELSE IF line[1] = "sp" THEN trim(SubSeq(line, 2, Len(line)))
    ELSE IF line[Len(line)] = "sp" THEN trim(SubSeq(line, 1, Len(line) - 1))
    ELSE line

\* MetricsCalculator.calculateCyclomaticComplexity: complexityKeywords
complexityKeywords ==
    <<"if", "else", "for", "while", "do", "switch", "case", "catch",
      "&&", "||", "?", "try", "throw", "return">>

\* Variant: a RegExp constructor that accepts every keyword
newRegExpAccepts(keyword) == FALSE

\* new RegExp(`\\b${keyword}\\b`, 'g') is a SyntaxError for the keyword "?":
\* in \b?\b the quantifier has nothing to repeat
newRegExpThrows(keyword) == keyword = "?"

\* code.match(regex)?.length: \b||\b matches the empty string at every
\* position of the text; the word keywords are counted in the pieces; the
\* pieces hold no && between word characters
keywordMatches(keyword, code) ==
    IF keyword = "||" THEN CodeLength(code) + 1
    ELSE IF keyword \in {"if", "else", "return"} THEN
        LET perWord == [k \in {"if", "else", "return"} |->
                [tok \in CodeTokens |->
                    CASE tok = "ret"    -> IF k = "return" THEN 1 ELSE 0
                      [] tok = "branch" -> IF k = "else" THEN 0 ELSE 1
                      [] tok = "chain"  -> 3
                      [] OTHER          -> 0]]
            RECURSIVE InLine(_)
            InLine(line) == IF Len(line) = 0 THEN 0
                            ELSE perWord[keyword][line[1]]
                                   + InLine(SubSeq(line, 2, Len(line)))
            RECURSIVE InCode(_)
            InCode(c) == IF Len(c) = 0 THEN 0
                         ELSE InLine(c[1]) + InCode(SubSeq(c, 2, Len(c)))
        IN  InCode(code)
    ELSE 0

\* The loop over the first k keywords: [threw, value]
RECURSIVE complexityUpTo(_, _)
complexityUpTo(code, k) ==
    IF k = 0 THEN [threw |-> FALSE, value |-> 1]       \* base complexity
    ELSE LET before == complexityUpTo(code, k - 1)
         IN  IF before.threw \/ newRegExpThrows(complexityKeywords[k])
             THEN [threw |-> TRUE, value |-> 0]
             ELSE [threw |-> FALSE,
                   value |-> before.value + keywordMatches(complexityKeywords[k], code)]

calculateCyclomaticComplexity(code) == complexityUpTo(code, Len(complexityKeywords))

\* 5.2 * Math.log(volume) in thousandths, volume = n * Math.log2(n + 1),
\* for n = 1, 2, ... operators and operands
HalsteadTerm ==
    <<
      0, 5999, 9317, 11589, 13308, 14685, 15832, 16812, 17668, 18427,
      19108, 19725, 20290, 20809, 21291, 21739, 22158, 22551, 22922, 23273,
      23606, 23922, 24223, 24511, 24786, 25050, 25303, 25547, 25781, 26007,
      26226, 26437, 26641, 26839, 27031, 27217, 27398, 27573, 27744, 27910,
      28072, 28230, 28384, 28535, 28682, 28825, 28965, 29102, 29236, 29368,
      29496, 29622, 29746, 29867, 29986, 30102, 30216, 30329, 30439, 30547 >>

\* 16.2 * Math.log(totalLines) in thousandths, for 1, 2, ... lines
LinesTerm == << 0, 11229, 17798, 22458, 26073 >>

\* calculateMaintainabilityIndex: for a text without operator and operand
\* Math.log(0) is -Infinity and the index is clamped to 100
calculateMaintainabilityIndex(code, complexity) ==
    LET totalLines == Len(code)
        n == CodeStat(code, "operators") + CodeStat(code, "operands")
    IN  IF n = 0 THEN 100
        ELSE LET raw == 171000 - HalsteadTerm[n] - 230 * complexity - LinesTerm[totalLines]
                 clamped == Max(0, IF raw < 100000 THEN raw ELSE 100000)
             IN  MathRoundDiv(clamped, 1000)

\* calculateDuplication: the trimmed lines longer than 10 characters, one
\* duplicate for every repetition of a line; 0 / 0 is NaN when no line is
\* that long
calculateDuplication(code) ==
    LET trimmed == [i \in DOMAIN code |-> trim(code[i])]
        lines == SelectSeq(trimmed, LAMBDA line : LineStat(line, "len") > 10)
        duplicatedLines == Len(lines) - Cardinality(Range(lines))
    IN  IF Len(lines) = 0 THEN NaN
        ELSE MathRoundDiv(duplicatedLines * 100, Len(lines))

\* calculateQualityScore: arithmetic on NaN gives NaN
calculateQualityScore(complexity, maintainability, duplication) ==
    IF duplication = NaN THEN NaN
    ELSE MathRoundDiv(3 * Max(0, 100 - complexity * 5) + 4 * maintainability
                        + 3 * Max(0, 100 - duplication), 10)

\* lines with something on them that do not start with //
linesOfCodeOf(code) ==
    Cardinality({i \in DOMAIN code :
                   Len(trim(code[i])) > 0 /\ trim(code[i])[1] # "cmt"})

NoMetrics ==
    [complexity |-> 0, maintainability |-> 0, duplication |-> 0,
     linesOfCode |-> 0, qualityScore |-> 0]

\* MetricsCalculator.calculateMetrics(code, fileName): [threw, value]
calculateMetrics(code) ==
    LET cc == calculateCyclomaticComplexity(code)
    IN  IF cc.threw THEN [threw |-> TRUE, value |-> NoMetrics]
        ELSE LET complexity == cc.value
                 maintainability == calculateMaintainabilityIndex(code, complexity)
                 duplication == calculateDuplication(code)
             IN  [threw |-> FALSE,
                  value |-> [complexity |-> complexity,
                             maintainability |-> maintainability,
                             duplication |-> duplication,
                             linesOfCode |-> linesOfCodeOf(code),
                             qualityScore |-> calculateQualityScore(
                                 complexity, maintainability, duplication)]]

InitMetrics ==
    /\ metricsText \in CodeTexts
    /\ metricsOut = [threw |-> FALSE, value |-> NoMetrics]
    /\ measured = FALSE

\* A caller hands metricsText to calculateMetrics
measure ==
    /\ ~measured
    /\ measured' = TRUE
    /\ metricsOut' = calculateMetrics(metricsText)
    /\ UNCHANGED metricsText

NextMetrics == measure

(***************************************************************************)
(* Workspace scans (Scanner.scanWorkspace, Analyzer.analyzeWorkspace)      *)
(*                                                                         *)
(* Both walk the files found in batches: the per-file tasks of a batch     *)
(* are started together and awaited with Promise.all. A task runs on the   *)
(* single JavaScript thread and gives way at its awaits only.              *)
(***************************************************************************)
\* Files findFiles returns
MaxFiles == 3
\* Files of one batch: batchSize, 10 in scanWorkspace and 5 in
\* analyzeWorkspace, scaled down
BatchWidth == 2

Modes == {"scanWorkspace", "analyzeWorkspace"}

\* A file of the workspace: its path, its size on disk, its text as the
\* rule catalogs read it (text) and as calculateMetrics reads it (code),
\* and whether openTextDocument can open it. findFiles leaves out
\* **/node_modules/**.
PlainFile ==
    [path |-> relativePath(<<"src">>), size |-> 512000,
     text |-> << <<"pw">> >>, code |-> << <<"branch">> >>, readable |-> TRUE]
DistFile ==
    [path |-> relativePath(<<"src", "dist">>), size |-> 512000,
     text |-> << <<"dw">>, <<"con">> >>, code |-> << <<"ret">> >>,
     readable |-> TRUE]
LargeFile ==
    [path |-> relativePath(<<>>), size |-> 512001,
     text |-> << <<"pw">> >>, code |-> << <<"chain">> >>, readable |-> TRUE]
UnreadableFile ==
    [path |-> relativePath(<<"src">>), size |-> 512000,
     text |-> << <<"sp">> >>, code |-> << <<>> >>, readable |-> FALSE]
WorkspaceFiles == {PlainFile, DistFile, LargeFile, UnreadableFile}
FileLists == UNION { [1 .. n -> WorkspaceFiles] : n \in 1 .. MaxFiles }

\* The files of the batch that starts after the first i files
Batch(i) == {f \in DOMAIN files : i < f /\ f <= i + BatchWidth}

\* Where a per-file task stands: not started; awaiting openTextDocument;
\* awaiting analyzeFile; returned; ended in its catch block
Settled == {"done", "failed"}
InProgress == {"open", "analyze"}

\* number + number, NaN when either is
add(a, b) == IF a = NaN \/ b = NaN THEN NaN ELSE a + b

ZeroTotals ==
    [issues |-> 0, linesOfCode |-> 0, complexity |-> 0,
     maintainability |-> 0, duplication |-> 0]

\* An AnalysisResult: the file (its place in the list found), the Issue[]
\* and the three metrics
AnalysisResult(f, issues, metrics) ==
    [file |-> f, issues |-> issues,
     metrics |-> [complexity |-> metrics.complexity,
                  maintainability |-> metrics.maintainability,
                  duplication |-> metrics.duplication]]

\* Analyzer.calculateMetrics(code): the first eleven complexityKeywords of
\* MetricsCalculator are Analyzer's list, "?" among them: [threw, value]
analyzerCalculateMetrics(code) ==
    LET cc == complexityUpTo(code, 11)
        tenfold == 1000 - 50 * cc.value - Len(code)
    IN  IF cc.threw THEN [threw |-> TRUE, value |-> NoMetrics]
        ELSE [threw |-> FALSE,
              value |-> [complexity |-> cc.value,
                         maintainability |->
                             IF tenfold <= 0 THEN 0 ELSE MathRoundDiv(tenfold, 10),
                         duplication |-> 0, linesOfCode |-> 0,
                         qualityScore |-> 0]]

\* Variant: the totals updated before the file is measured
settleCountFirst(f, issues, m, tot) ==
    [failed |-> m.threw,
     result |-> IF m.threw THEN <<>> ELSE <<AnalysisResult(f, issues, m.value)>>,
     totals |-> [issues |-> tot.issues + Len(issues),
                 linesOfCode |-> add(tot.linesOfCode, m.value.linesOfCode),
                 complexity |-> add(tot.complexity, m.value.complexity),
                 maintainability |->
                     add(tot.maintainability, m.value.maintainability),
                 duplication |-> add(tot.duplication, m.value.duplication)]]

\* The end of a scanWorkspace task, from calculateMetrics on: m is what
\* calculateMetrics did. When it threw the catch block returns null (<<>>)
\* and the totals are as they were; otherwise the totals take the file in
\* and the task returns its AnalysisResult.
settleScanTask(f, issues, m, tot) ==
    IF m.threw THEN [failed |-> TRUE, result |-> <<>>, totals |-> tot]
    ELSE [failed |-> FALSE,
          result |-> <<AnalysisResult(f, issues, m.value)>>,
          totals |-> [issues |-> tot.issues + Len(issues),
                      linesOfCode |-> add(tot.linesOfCode, m.value.linesOfCode),
                      complexity |-> add(tot.complexity, m.value.complexity),
                      maintainability |->
                          add(tot.maintainability, m.value.maintainability),
                      duplication |-> add(tot.duplication, m.value.duplication)]]

\* Variant: the loop goes on as soon as one task of the batch has settled
batchAnySettled(tk, i) == \E f \in Batch(i) : tk[f] \in Settled

\* await Promise.all(batchPromises) resumes when every task of the batch
\* has settled
batchSettled(tk, i) == \A f \in Batch(i) : tk[f] \in Settled

\* batch.map(async ...) runs each task of the batch up to its first await.
\* In scanWorkspace that is openTextDocument. In analyzeWorkspace a task
\* returns at once for an excluded file (null) and for an oversized one (an
\* AnalysisResult nobody keeps), and reaches openTextDocument otherwise.
tooLargeResult(f) == AnalysisResult(f, <<fileTooLargeIssue>>, NoMetrics)

launch(m, cfg, i, tk) ==
    [f \in DOMAIN files |->
        IF f \notin Batch(i) THEN tk[f]
        ELSE IF m = "analyzeWorkspace"
                  /\ (isFileExcluded(files[f].path, cfg)
                        \/ isFileTooLarge(files[f].size, cfg))
             THEN "done"
             ELSE "open"]

launchReturned(m, cfg, i, ret) ==
    [f \in DOMAIN files |->
        IF f \in Batch(i) /\ m = "analyzeWorkspace"
              /\ ~isFileExcluded(files[f].path, cfg)
              /\ isFileTooLarge(files[f].size, cfg)
        THEN <<tooLargeResult(f)>>
        ELSE ret[f]]

\* batchResults.filter(result => result !== null), in the order of the batch
batchResults(ret, tk, i) ==
    LET upTo == IF i + BatchWidth < Len(files) THEN i + BatchWidth ELSE Len(files)
        RECURSIVE From(_)
        From(f) == IF f > upTo THEN <<>>
                   ELSE (IF tk[f] \in Settled THEN ret[f] ELSE <<>>)
                          \o From(f + 1)
    IN  From(i + 1)

\* The averages and the overall score scanWorkspace returns: 0 for an empty
\* fileResults, else total / fileResults.length, rounded half up
workspaceMetrics(tot, n) ==
    IF n = 0
    THEN [complexity |-> 0, maintainability |-> 0, duplication |-> 0,
          linesOfCode |-> tot.linesOfCode, qualityScore |-> 60]
    ELSE [complexity |-> MathRoundDiv(tot.complexity, n),
          maintainability |-> MathRoundDiv(tot.maintainability, n),
          duplication |-> IF tot.duplication = NaN THEN NaN
                          ELSE MathRoundDiv(tot.duplication, n),
          linesOfCode |-> tot.linesOfCode,
          qualityScore |->
              IF tot.duplication = NaN THEN NaN
              ELSE MathRoundDiv(3 * Max(0, 100 * n - 5 * tot.complexity)
                                  + 4 * tot.maintainability
                                  + 3 * Max(0, 100 * n - tot.duplication),
                                10 * n)]

NoScanResult ==
    [totalFiles |-> Null, totalIssues |-> Null, qualityMetrics |-> Null,
     fileResults |-> <<>>]

\* What the call returns: scanWorkspace a WorkspaceScanResult (scanDuration
\* left out), analyzeWorkspace its results array alone
returnValue(m, results, tot) ==
    IF m = "scanWorkspace"
    THEN [totalFiles |-> Len(results), totalIssues |-> tot.issues,
          qualityMetrics |-> workspaceMetrics(tot, Len(results)),
          fileResults |-> results]
    ELSE [totalFiles |-> Null, totalIssues |-> Null, qualityMetrics |-> Null,
          fileResults |-> results]

InitBatch ==
    /\ mode \in Modes
    /\ files \in FileLists
    /\ bpc = "idle"
    /\ batchAt = 0
    /\ task = [f \in DOMAIN files |-> "idle"]
    /\ returned = [f \in DOMAIN files |-> <<>>]
    /\ fileResults = <<>>
    /\ totals = ZeroTotals
    /\ scanResult = NoScanResult

\* The call, up to the await of the first batch. analyzeWorkspace loads the
\* configuration first if the Analyzer has none; scanWorkspace leaves that
\* to analyzeFile.
startWorkspace ==
    /\ bpc = "idle"
    /\ \E cfg \in (IF config.loaded \/ mode = "scanWorkspace"
                   THEN {config} ELSE LoadedConfigs) :
         /\ config' = cfg
         /\ task' = launch(mode, cfg, 0, task)
         /\ returned' = launchReturned(mode, cfg, 0, returned)
    /\ bpc' = "await"
    /\ UNCHANGED <<mode, files, batchAt, fileResults, totals, scanResult>>
    /\ UNCHANGED <<scanPath, scanSize, scanRan, scanExcluded, scanIssues,
                   catalogIssues, scanned>>
    /\ UNCHANGED ruleVars

\* openTextDocument settles for the task of file f: the task goes on into
\* analyzeFile, or into its catch block when the file cannot be opened
openTextDocument(f) ==
    /\ task[f] = "open"
    /\ task' = [task EXCEPT ![f] = IF files[f].readable THEN "analyze" ELSE "failed"]
    /\ UNCHANGED <<mode, files, bpc, batchAt, returned, fileResults, totals, scanResult>>
    /\ UNCHANGED <<scanVars, ruleVars>>

\* analyzeFile settles for the task of file f and the task runs to its end:
\* the file is measured, and the result is kept unless that threw
finishTask(f) ==
    /\ task[f] = "analyze"
    /\ \E ce \in configChoices(files[f].path), lint \in LintOutcomes :
         analyzeFileWith(ce[1], ce[2], files[f].path, files[f].size,
                         files[f].text, lint)
    /\ IF mode = "scanWorkspace"
       THEN LET end == settleScanTask(f, scanIssues',
                                      calculateMetrics(files[f].code), totals)
            IN  /\ task' = [task EXCEPT ![f] = IF end.failed THEN "failed" ELSE "done"]
                /\ returned' = [returned EXCEPT ![f] = end.result]
                /\ totals' = end.totals
                /\ UNCHANGED fileResults
       ELSE LET m == analyzerCalculateMetrics(files[f].code)
            IN  /\ task' = [task EXCEPT ![f] = IF m.threw THEN "failed" ELSE "done"]
                /\ fileResults' =
                      IF m.threw THEN fileResults
                      ELSE Append(fileResults,
                                  AnalysisResult(f, scanIssues', m.value))
                /\ UNCHANGED <<returned, totals>>
    /\ UNCHANGED <<mode, files, bpc, batchAt, scanResult, scanned>>
    /\ UNCHANGED <<ruleText, ruleIssues, prevText, prevIssues, calls>>

\* Promise.all of the batch settles: scanWorkspace pushes the results of
\* the batch; then the next batch is started, or the call returns
batchDone ==
    /\ bpc = "await"
    /\ batchSettled(task, batchAt)
    /\ LET results == IF mode = "scanWorkspace"
                      THEN fileResults \o batchResults(returned, task, batchAt)
                      ELSE fileResults
           next == batchAt + BatchWidth
       IN  /\ fileResults' = results
           /\ batchAt' = next
           /\ IF next < Len(files)
              THEN /\ task' = launch(mode, config, next, task)
                   /\ returned' = launchReturned(mode, config, next, returned)
                   /\ UNCHANGED <<bpc, scanResult>>
              ELSE /\ bpc' = "returned"
                   /\ scanResult' = returnValue(mode, results, totals)
                   /\ UNCHANGED <<task, returned>>
    /\ UNCHANGED <<mode, files, totals>>
    /\ UNCHANGED <<scanVars, ruleVars>>

NextBatch ==
    \/ startWorkspace
    \/ \E f \in DOMAIN files : openTextDocument(f)
    \/ \E f \in DOMAIN files : finishTask(f)
    \/ batchDone

(***************************************************************************)
(* ConfigLoader.loadConfig and createDefaultConfigFile                     *)
(*                                                                         *)
(* A boolean field holds "true", "false" or, when its object has no such   *)
(* property, "undefined".  An object with optional properties is a         *)
(* function from the property names it has.                                *)
(***************************************************************************)
\* loadConfig calls made on one ConfigLoader
MaxLoads == 2

\* The defaultConfig literal (customRules and excludePatterns, which
\* loadConfig never assigns, left out)
DocumentedDefaults ==
    [enabled |-> "true",
     rules |-> [security |-> "true", performance |-> "true", style |-> "true"],
     maxFileSize |-> maxFileSize,
     autoAnalyzeOnSave |-> "true",
     showStatusBar |-> "true"]

ConfigFields == {"enabled", "rules", "maxFileSize", "autoAnalyzeOnSave", "showStatusBar"}

\* The editor settings of section cleanguard: per key a value or "unset"
NoSettings ==
    [enabled |-> "unset", security |-> "unset", performance |-> "unset",
     style |-> "unset", autoAnalyzeOnSave |-> "unset", showStatusBar |-> "unset"]
SettingsChoices ==
    { NoSettings,
      [NoSettings EXCEPT !.security = "false"],
      [NoSettings EXCEPT !.enabled = "false"],
      [NoSettings EXCEPT !.autoAnalyzeOnSave = "false", !.style = "true"] }

\* .cleanguardrc: absent (or no workspace folder), text JSON.parse rejects,
\* or an object with the properties given
AbsentFile == [kind |-> "absent", fields |-> <<>>]
GarbageFile == [kind |-> "garbage", fields |-> <<>>]
ObjectFile(fields) == [kind |-> "object", fields |-> fields]
FileChoices ==
    { AbsentFile, GarbageFile,
      ObjectFile("rules" :> ("security" :> "false")),
      ObjectFile("maxFileSize" :> 100),
      ObjectFile(("enabled" :> "false") @@ ("rules" :> ("style" :> "false"
                                                          @@ "performance" :> "true"))) }

\* vscodeConfig.get(key, defaultValue)
get(setting, defaultValue) == IF setting = "unset" THEN defaultValue ELSE setting

\* config.rules.<category> as a reader finds it
ruleValue(cfg, c) == IF c \in DOMAIN cfg.rules THEN cfg.rules[c] ELSE "undefined"

\* Object.assign(config, fileConfig): every property of fileConfig replaces
\* the property of that name, the rules object as a whole
assign(cfg, fields) ==
    [k \in ConfigFields |-> IF k \in DOMAIN fields THEN fields[k] ELSE cfg[k]]

\* `config = { ...this.defaultConfig }` copies the properties of
\* defaultConfig, so config.rules is the rules object of defaultConfig: the
\* three assignments config.rules.<category> = get(...) are made in it.  The
\* rules of defaultConfig after them:
rulesAfter(def, settings) ==
    [security |-> get(settings.security, def.rules.security),
     performance |-> get(settings.performance, def.rules.performance),
     style |-> get(settings.style, def.rules.style)]

\* What loadConfig returns
loadConfigResult(def, settings, rc) ==
    LET fromSettings ==
            [enabled |-> get(settings.enabled, def.enabled),
             rules |-> rulesAfter(def, settings),
             maxFileSize |-> def.maxFileSize,
             autoAnalyzeOnSave |-> get(settings.autoAnalyzeOnSave, def.autoAnalyzeOnSave),
             showStatusBar |-> get(settings.showStatusBar, def.showStatusBar)]
    IN  IF rc.kind = "object" THEN assign(fromSettings, rc.fields)
        ELSE fromSettings

InitConfig ==
    /\ defaultConfig = DocumentedDefaults
    /\ rcFile = AbsentFile
    /\ loadedConfig = DocumentedDefaults
    /\ lastSettings = NoSettings
    /\ lastFile = AbsentFile
    /\ loads = 0

\* A call of loadConfig under the settings and the file of the moment
loadConfig ==
    /\ loads < MaxLoads
    /\ \E settings \in SettingsChoices :
         /\ loadedConfig' = loadConfigResult(defaultConfig, settings, rcFile)
         /\ defaultConfig' = [defaultConfig EXCEPT !.rules = rulesAfter(defaultConfig, settings)]
         /\ lastSettings' = settings
    /\ lastFile' = rcFile
    /\ loads' = loads + 1
    /\ UNCHANGED rcFile

\* createDefaultConfigFile: writes JSON.stringify(this.defaultConfig) when
\* the workspace has no .cleanguardrc
createDefaultConfigFile ==
    /\ rcFile.kind = "absent"
    /\ rcFile' = ObjectFile([k \in ConfigFields |-> defaultConfig[k]])
    /\ UNCHANGED <<defaultConfig, loadedConfig, lastSettings, lastFile, loads>>

\* The user writes, replaces or deletes .cleanguardrc
editConfigFile ==
    /\ \E rc \in FileChoices : rc # rcFile /\ rcFile' = rc
    /\ UNCHANGED <<defaultConfig, loadedConfig, lastSettings, lastFile, loads>>

NextConfig ==
    \/ loadConfig
    \/ createDefaultConfigFile
    \/ editConfigFile

(***************************************************************************)
(* The save listener of activate                                           *)
(***************************************************************************)
\* Save events delivered in one run
MaxSaveEvents == 3

\* cleanguard.enabled and cleanguard.autoAnalyzeOnSave as the user set them
Settings == [enabled : BOOLEAN, autoAnalyzeOnSave : BOOLEAN]

LanguageIds == {"typescript", "javascript", "python"}
SavedTexts == { EmptyCode, << <<"branch">> >> }
Documents == [languageId : LanguageIds, text : SavedTexts]
NoDocument == [languageId |-> "", text |-> EmptyCode]

\* What analyzer.analyzeFile resolved to: the length of its Issue[]
IssueCounts == {0, 2}

InitSave ==
    /\ userSettings = [enabled |-> TRUE, autoAnalyzeOnSave |-> TRUE]
    /\ document = NoDocument
    /\ listenerConfig = userSettings
    /\ lpc = "idle"
    /\ analyses = 0
    /\ diagnostics = 0
    /\ statusCount = 0
    /\ reviewCalls = 0
    /\ saveEvents = 0

\* The user edits the settings
changeSettings ==
    /\ \E s \in Settings : s # userSettings /\ userSettings' = s
    /\ UNCHANGED <<document, listenerConfig, lpc, analyses, diagnostics,
                   statusCount, reviewCalls, saveEvents>>

\* The listener up to its first await: config.get('enabled', true), the
\* languageId test, and the call of analyzer.analyzeFile
onDidSaveTextDocument ==
    /\ lpc = "idle"
    /\ saveEvents < MaxSaveEvents
    /\ saveEvents' = saveEvents + 1
    /\ \E doc \in Documents :
         /\ document' = doc
         /\ listenerConfig' = userSettings
         /\ IF ~userSettings.enabled
            THEN UNCHANGED <<lpc, analyses>>
            ELSE IF doc.languageId \in {"typescript", "javascript"}
            THEN lpc' = "analyzeFile" /\ analyses' = analyses + 1
            ELSE UNCHANGED <<lpc, analyses>>
    /\ UNCHANGED <<userSettings, diagnostics, statusCount, reviewCalls>>

\* The listener after "await analyzer.analyzeFile(document)":
\* calculateMetrics, showDiagnostics, updateIssueCount and the call of
\* saveReview, inside try/catch
analyzeFileResolved ==
    /\ lpc = "analyzeFile"
    /\ lpc' = "idle"
    /\ \E n \in IssueCounts :
         IF calculateMetrics(document.text).threw
         THEN UNCHANGED <<diagnostics, statusCount, reviewCalls>>
         ELSE /\ diagnostics' = n
              /\ statusCount' = n
              /\ reviewCalls' = reviewCalls + 1
    /\ UNCHANGED <<userSettings, document, listenerConfig, analyses, saveEvents>>

NextSave ==
    \/ changeSettings
    \/ onDidSaveTextDocument
    \/ analyzeFileResolved

(***************************************************************************)
(* Specifications                                                          *)
(***************************************************************************)
\* The parts a specification leaves alone, as they are after construction
HistoryAtRest == InitHistory /\ file = MissingDoc
MetricsAtRest == InitMetrics /\ metricsText = EmptyCode
BatchAtRest == InitBatch /\ mode = "scanWorkspace" /\ files = <<PlainFile>>

Init ==
    /\ InitHistory /\ InitRules /\ InitScan /\ MetricsAtRest /\ BatchAtRest
    /\ InitConfig /\ InitSave

NextHistoryOnly ==
    \/ Tick /\ UNCHANGED <<ruleVars, scanVars, metricVars, batchVars, configVars, saveVars>>
    \/ \E p \in Procs : saveReviewLoad(p) /\ UNCHANGED <<ruleVars, scanVars, metricVars, batchVars, configVars, saveVars>>
    \/ \E p \in Procs : saveReviewSave(p) /\ UNCHANGED <<ruleVars, scanVars, metricVars, batchVars, configVars, saveVars>>
    \/ \E p \in Procs : saveReviewReturn(p) /\ UNCHANGED <<ruleVars, scanVars, metricVars, batchVars, configVars, saveVars>>
    \/ loadTimelineData /\ UNCHANGED <<ruleVars, scanVars, metricVars, batchVars, configVars, saveVars>>

SpecHistory == Init /\ [][NextHistoryOnly]_vars

NextHistorySerialOnly ==
    \/ Tick /\ UNCHANGED <<ruleVars, scanVars, metricVars, batchVars, configVars, saveVars>>
    \/ recordSerial /\ UNCHANGED <<ruleVars, scanVars, metricVars, batchVars, configVars, saveVars>>
    \/ saveReviewSave("p1") /\ UNCHANGED <<ruleVars, scanVars, metricVars, batchVars, configVars, saveVars>>
    \/ saveReviewReturn("p1") /\ UNCHANGED <<ruleVars, scanVars, metricVars, batchVars, configVars, saveVars>>

SpecHistorySerial == Init /\ [][NextHistorySerialOnly]_vars

InitAtRest ==
    /\ HistoryAtRest /\ InitRules /\ InitScan /\ MetricsAtRest /\ BatchAtRest
    /\ InitConfig /\ InitSave

NextRulesOnly ==
    NextRules /\ UNCHANGED <<historyVars, scanVars, metricVars, batchVars, configVars, saveVars>>

SpecRules == InitAtRest /\ [][NextRulesOnly]_vars

NextScanOnly ==
    NextScan /\ UNCHANGED <<historyVars, metricVars, batchVars, configVars, saveVars>>

SpecScan == InitAtRest /\ [][NextScanOnly]_vars

InitMetricsOnly ==
    /\ HistoryAtRest /\ InitRules /\ InitScan /\ InitMetrics /\ BatchAtRest
    /\ InitConfig /\ InitSave

NextMetricsOnly ==
    NextMetrics /\ UNCHANGED <<historyVars, ruleVars, scanVars, batchVars, configVars, saveVars>>

SpecMetrics == InitMetricsOnly /\ [][NextMetricsOnly]_vars

InitBatchOnly ==
    /\ HistoryAtRest /\ InitRules /\ InitScan /\ MetricsAtRest /\ InitBatch
    /\ InitConfig /\ InitSave

NextBatchOnly ==
    \/ startWorkspace /\ UNCHANGED <<historyVars, metricVars, configVars, saveVars>>
    \/ \E f \in DOMAIN files : openTextDocument(f) /\ UNCHANGED <<historyVars, metricVars, configVars, saveVars>>
    \/ \E f \in DOMAIN files : finishTask(f) /\ UNCHANGED <<historyVars, metricVars, configVars, saveVars>>
    \/ batchDone /\ UNCHANGED <<historyVars, metricVars, configVars, saveVars>>

SpecBatch == InitBatchOnly /\ [][NextBatchOnly]_vars

NextConfigOnly ==
    \/ loadConfig /\ UNCHANGED <<historyVars, ruleVars, scanVars, metricVars, batchVars, saveVars>>
    \/ createDefaultConfigFile /\ UNCHANGED <<historyVars, ruleVars, scanVars, metricVars, batchVars, saveVars>>
    \/ editConfigFile /\ UNCHANGED <<historyVars, ruleVars, scanVars, metricVars, batchVars, saveVars>>

SpecConfig == InitAtRest /\ [][NextConfigOnly]_vars

NextSaveOnly ==
    \/ changeSettings /\ UNCHANGED <<historyVars, ruleVars, scanVars, metricVars, batchVars, configVars>>
    \/ onDidSaveTextDocument /\ UNCHANGED <<historyVars, ruleVars, scanVars, metricVars, batchVars, configVars>>
    \/ analyzeFileResolved /\ UNCHANGED <<historyVars, ruleVars, scanVars, metricVars, batchVars, configVars>>

SpecSave == InitAtRest /\ [][NextSaveOnly]_vars

Next ==
    \/ NextHistory /\ UNCHANGED <<ruleVars, scanVars, metricVars, batchVars, configVars, saveVars>>
    \/ NextRules /\ UNCHANGED <<historyVars, scanVars, metricVars, batchVars, configVars, saveVars>>
    \/ NextScan /\ UNCHANGED <<historyVars, metricVars, batchVars, configVars, saveVars>>
    \/ NextMetrics /\ UNCHANGED <<historyVars, ruleVars, scanVars, batchVars, configVars, saveVars>>
    \/ NextBatch /\ UNCHANGED <<historyVars, metricVars, configVars, saveVars>>
    \/ NextConfig /\ UNCHANGED <<historyVars, ruleVars, scanVars, metricVars, batchVars, saveVars>>
    \/ NextSave /\ UNCHANGED <<historyVars, ruleVars, scanVars, metricVars, batchVars, configVars>>

Spec == Init /\ [][Next]_vars

(***************************************************************************)
(* Properties                                                              *)
(***************************************************************************)
InsideWindow(timestamp, now) == timestamp > now - RetentionTicks

Count(seq, Test(_)) == Cardinality({i \in DOMAIN seq : Test(seq[i])})

\* Sum of f over an index set, one index at a time
RECURSIVE SumOver(_, _)
SumOver(f, idx) ==
    IF idx = {} THEN 0
    ELSE LET i == CHOOSE k \in idx : TRUE IN f[i] + SumOver(f, idx \ {i})

\* q is num/den rounded to the nearest integer, halves up
IsRounded(q, num, den) == 2 * den * q - den <= 2 * num /\ 2 * num < 2 * den * q + den

\* The composite score of stored metrics, by its defining inequality
StoredNumber(x) == IF x = Null THEN 0 ELSE x
CompositeOf(metrics) ==
    LET c == StoredNumber(metrics.complexity)
        m == StoredNumber(metrics.maintainability)
        d == StoredNumber(metrics.duplication)
        pc3 == IF 100 - 5 * c > 0 THEN 3 * (100 - 5 * c) ELSE 0
        pd3 == IF 100 - d > 0 THEN 3 * (100 - d) ELSE 0
    IN  CHOOSE q \in 0 .. 100 : IsRounded(q, pc3 + 4 * m + pd3, 10)

\* C1: two successive analyze calls of one catalog instance on the same text
\* return the same Issue sequence
C1_Idempotent ==
    (calls >= 2 /\ ruleText = prevText) => ruleIssues = prevIssues

\* C2: when two record calls have both completed without a persistence
\* fault, the persisted list holds both new records (both still inside the
\* retention window)
C2_NoLostUpdate ==
    ( /\ \A p \in Procs : pc[p] = "done" /\ readOk[p] /\ writeOk[p]
      /\ \A p \in Procs : InsideWindow(review[p].timestamp, clock) )
    => /\ file.kind = "ok"
       /\ \A p \in Procs : jsonReview(review[p]) \in Range(file.reviews)

\* C3: once a record call stamped T has persisted, the document holds no
\* record stamped at or before T minus 30 days, and a summarize counts none
C3_RetentionAfterRecord ==
    \A p \in Procs :
        (pc[p] \in {"saved", "done"} /\ writeOk[p]) =>
            LET T == review[p].timestamp
                td == loadHistory(file, FALSE).value
            IN  /\ \A i \in DOMAIN file.reviews :
                       ~(file.reviews[i].timestamp <= T - RetentionTicks)
                /\ \A i \in DOMAIN td.reviews :
                       ~(td.reviews[i].timestamp <= T - RetentionTicks)
                /\ td.summary.totalReviews =
                       Count(file.reviews, LAMBDA r : r.timestamp > T - RetentionTicks)

\* a record call has persisted and the only record left is its own, though
\* the timeline shown before held a record 30 days older
C3_Witness ==
    \E p \in Procs :
        /\ pc[p] = "saved" /\ writeOk[p]
        /\ file.reviews = <<jsonReview(review[p])>>
        /\ lastRead = "ok"
        /\ \E i \in DOMAIN timelineData.reviews :
               timelineData.reviews[i].timestamp <= review[p].timestamp - RetentionTicks

\* C4: a summary just loaded is computed only from records inside the
\* retention window
C4_SummaryInsideWindow ==
    (fresh /\ lastRead = "ok") =>
        /\ \A i \in DOMAIN timelineData.reviews :
               InsideWindow(timelineData.reviews[i].timestamp, clock)
        /\ timelineData.summary.totalReviews =
               Count(timelineData.reviews, LAMBDA r : InsideWindow(r.timestamp, clock))

\* C5: a record call that persists on a document whose records are all
\* inside the retention window leaves the new record followed by exactly
\* the records the document held
C5_PrependPreserve ==
    [][\A p \in Procs :
          ( /\ pc[p] = "loaded" /\ pc'[p] = "saved" /\ writeOk'[p]
            /\ file.kind = "ok"
            /\ InsideWindow(review[p].timestamp, clock)
            /\ \A i \in DOMAIN file.reviews :
                   InsideWindow(file.reviews[i].timestamp, clock) )
          => file'.reviews = <<jsonReview(review[p])>> \o file.reviews]_vars

\* C6: a load that meets a read fault, an unparseable document or a document
\* without a record list returns the zero-valued TimelineData and raises
\* nothing
C6_ReadFaultEmpty ==
    lastRead \in {"readError", "garbage", "null", "noList", "badList"} =>
        /\ timelineData = EmptyTimeline
        /\ timelineData.summary.totalReviews = 0
        /\ timelineData.summary.trendData = <<>>
        /\ ~raised

\* a read fault on a document that holds records
C6_Witness ==
    lastRead = "readError" /\ fresh /\ file.kind = "ok" /\ Len(file.reviews) > 0

\* C7: a record call whose write fails ends normally, leaves the document
\* as it was, and what summarize returns is what it returned before
C7_WriteFaultContained ==
    [][\A p \in Procs :
          (pc[p] = "loaded" /\ pc'[p] = "saved" /\ ~writeOk'[p])
          => /\ file' = file
             /\ ~raised'
             /\ loadHistory(file', FALSE).value = loadHistory(file, FALSE).value]_vars

SummaryTotalsOf(td) ==
    LET n == Len(td.reviews)
        issues == [i \in DOMAIN td.reviews |-> td.reviews[i].issueCount]
        scores == [i \in DOMAIN td.reviews |-> CompositeOf(td.reviews[i].metrics)]
    IN  /\ td.summary.totalReviews = n
        /\ td.summary.totalIssues = SumOver(issues, DOMAIN issues)
        /\ IF n = 0
           THEN td.summary.averageQualityScore = 0
           ELSE IsRounded(td.summary.averageQualityScore,
                          SumOver(scores, DOMAIN scores), n)

\* C8: totalReviews is the number of records, totalIssues the sum of their
\* issue counts, averageQualityScore the rounded mean of their recomputed
\* composite scores (0 without records) - of the summary last loaded and of
\* a summary of the document as it is
C8_SummaryTotals ==
    /\ lastRead \in {"ok", "missing", "noList"} => SummaryTotalsOf(timelineData)
    /\ file.kind = "ok" =>
          /\ loadHistory(file, FALSE).value.reviews = file.reviews
          /\ SummaryTotalsOf(loadHistory(file, FALSE).value)

\* a summary of two records whose mean score is not an integer
C8_Witness ==
    /\ lastRead = "ok"
    /\ Len(timelineData.reviews) = 2
    /\ (CompositeOf(timelineData.reviews[1].metrics)
          + CompositeOf(timelineData.reviews[2].metrics)) % 2 = 1
    /\ timelineData.summary.totalIssues = 3

\* The records of a date, and the shape of the trend series: one point for
\* each date that occurs, in ascending date order
OnDate(td, date) == {i \in DOMAIN td.reviews : dateOf(td.reviews[i].timestamp) = date}

TrendShape(td) ==
    LET trend == td.summary.trendData
    IN  /\ {trend[k].date : k \in DOMAIN trend}
             = {dateOf(td.reviews[i].timestamp) : i \in DOMAIN td.reviews}
        /\ \A k, l \in DOMAIN trend : k < l => trend[k].date < trend[l].date

\* C9 as stated: each point carries the average issue count and the average
\* quality score of its date
C9_TrendExactAverage ==
    lastRead = "ok" =>
        /\ TrendShape(timelineData)
        /\ \A k \in DOMAIN timelineData.summary.trendData :
              LET pt == timelineData.summary.trendData[k]
                  idx == OnDate(timelineData, pt.date)
                  issues == [i \in DOMAIN timelineData.reviews |->
                                timelineData.reviews[i].issueCount]
                  scores == [i \in DOMAIN timelineData.reviews |->
                                CompositeOf(timelineData.reviews[i].metrics)]
              IN  /\ pt.issues * Cardinality(idx) = SumOver(issues, idx)
                  /\ pt.qualityScore * Cardinality(idx) = SumOver(scores, idx)

\* C9 amended: each point carries the two averages of its date rounded to
\* the nearest integer
C9_TrendRounded ==
    lastRead = "ok" =>
        /\ TrendShape(timelineData)
        /\ \A k \in DOMAIN timelineData.summary.trendData :
              LET pt == timelineData.summary.trendData[k]
                  idx == OnDate(timelineData, pt.date)
                  issues == [i \in DOMAIN timelineData.reviews |->
                                timelineData.reviews[i].issueCount]
                  scores == [i \in DOMAIN timelineData.reviews |->
                                CompositeOf(timelineData.reviews[i].metrics)]
              IN  /\ IsRounded(pt.issues, SumOver(issues, idx), Cardinality(idx))
                  /\ IsRounded(pt.qualityScore, SumOver(scores, idx), Cardinality(idx))

\* two records of one date made one point, whose issue count is rounded
C9_Witness ==
    /\ lastRead = "ok"
    /\ Len(timelineData.reviews) = 2
    /\ dateOf(timelineData.reviews[1].timestamp) = dateOf(timelineData.reviews[2].timestamp)
    /\ timelineData.reviews[1].timestamp # timelineData.reviews[2].timestamp
    /\ Len(timelineData.summary.trendData) = 1
    /\ timelineData.reviews[1].issueCount + timelineData.reviews[2].issueCount = 3
    /\ timelineData.summary.trendData[1].issues = 2

\* node_modules is a directory of the path
UnderNodeModules(path) ==
    \E i \in DOMAIN path :
        /\ path[i] = "node_modules"
        /\ i = 1 \/ path[i - 1] = "/"
        /\ i < Len(path) /\ path[i + 1] = "/"

\* C10: with **/node_modules/** among the exclude patterns, every path with
\* a node_modules directory is excluded and its scan returns no Issue
C10_NodeModulesExcluded ==
    (scanned > 0 /\ UnderNodeModules(scanPath)) =>
        scanExcluded /\ scanIssues = <<>>

\* C17: calculateMetrics returns for every text, with complexity >= 1 and
\* maintainability, duplication and qualityScore in 0 .. 100; for the empty
\* string complexity is 1 and duplication is 0
C17_MetricRanges ==
    measured =>
        /\ ~metricsOut.threw
        /\ metricsOut.value.complexity >= 1
        /\ metricsOut.value.maintainability \in 0 .. 100
        /\ metricsOut.value.duplication \in 0 .. 100
        /\ metricsOut.value.qualityScore \in 0 .. 100
        /\ metricsText = EmptyCode =>
              metricsOut.value.complexity = 1 /\ metricsOut.value.duplication = 0

\* C18: the qualityScore of a result is the rounded weighted sum of the
\* complexity, maintainability and duplication of the same result; the
\* complexity term is 0 from complexity 20 on; a larger complexity or
\* duplication never gives a larger score
C18_CompositeScore ==
    measured =>
        LET v == metricsOut.value
            term(x) == IF 100 - x > 0 THEN 3 * (100 - x) ELSE 0
        IN  /\ ~metricsOut.threw
            /\ IsRounded(v.qualityScore,
                         term(5 * v.complexity) + 4 * v.maintainability
                           + term(v.duplication), 10)
            /\ v.complexity >= 20 =>
                  IsRounded(v.qualityScore,
                            4 * v.maintainability + term(v.duplication), 10)
            /\ \A c \in v.complexity .. v.complexity + 20 :
                  calculateQualityScore(c, v.maintainability, v.duplication)
                      <= v.qualityScore
            /\ \A d \in v.duplication .. 100 :
                  calculateQualityScore(v.complexity, v.maintainability, d)
                      <= v.qualityScore

\* C13: analyzeFile tests the disabled configuration, then exclusion, then
\* the file size, and runs the linter and the detectors only when none of
\* them applies; an excluded file, oversized or not, gives an empty result
C13_PolicyBeforeDetection ==
    scanned > 0 =>
        LET oversized == scanSize > config.maxFileSize * 1024
        IN  /\ ~config.enabled => scanIssues = <<>> /\ scanRan = {}
            /\ scanExcluded => scanIssues = <<>> /\ scanRan = {}
            /\ (config.enabled /\ ~scanExcluded /\ oversized)
                  => scanIssues = <<fileTooLargeIssue>> /\ scanRan = {}
            /\ (config.enabled /\ ~scanExcluded /\ ~oversized)
                  => /\ "eslint" \in scanRan
                     /\ \A c \in {"security", "performance", "style"} :
                           c \in scanRan <=> config.rules[c]
                     /\ fileTooLargeIssue \notin Range(scanIssues)

\* an enabled analyzeFile met a file that is both excluded and oversized
C13_Witness ==
    /\ scanned > 0
    /\ config.enabled
    /\ scanExcluded
    /\ scanSize > config.maxFileSize * 1024
    /\ scanIssues = <<>>

\* a directory named by one of the default exclude patterns is on the path
UnderExcludedDir(path) ==
    \E i \in DOMAIN path :
        /\ path[i] \in {"node_modules", "dist", "build"}
        /\ i = 1 \/ path[i - 1] = "/"
        /\ i < Len(path) /\ path[i + 1] = "/"

\* the entries of a fileResults array that are of files outside every
\* excluded directory
EntriesOutside(results) ==
    {i \in DOMAIN results : ~UnderExcludedDir(files[results[i].file].path)}

\* C11: in what scanWorkspace returns, no entry of fileResults is of a file
\* under an excluded directory, and totalFiles, totalIssues, the lines of
\* code and the averaged metrics are those of the other files' entries
C11_ExcludedOutsideAggregates ==
    (bpc = "returned" /\ mode = "scanWorkspace") =>
        LET results == scanResult.fileResults
            kept == EntriesOutside(results)
            n == Cardinality(kept)
            q == scanResult.qualityMetrics
            sum(field) == SumOver([i \in kept |-> results[i].metrics[field]], kept)
        IN  /\ kept = DOMAIN results
            /\ scanResult.totalFiles = n
            /\ scanResult.totalIssues =
                  SumOver([i \in kept |-> Len(results[i].issues)], kept)
            /\ q.linesOfCode =
                  SumOver([i \in kept |->
                             linesOfCodeOf(files[results[i].file].code)], kept)
            /\ IF n = 0
               THEN q.complexity = 0 /\ q.maintainability = 0 /\ q.duplication = 0
               ELSE /\ IsRounded(q.complexity, sum("complexity"), n)
                    /\ IsRounded(q.maintainability, sum("maintainability"), n)
                    /\ IsRounded(q.duplication, sum("duplication"), n)

\* scanWorkspace has returned from a workspace with a file under dist/
\* whose task went through analyzeFile
C11_Witness ==
    /\ bpc = "returned"
    /\ mode = "scanWorkspace"
    /\ \E f \in DOMAIN files :
          UnderExcludedDir(files[f].path) /\ files[f].readable /\ task[f] \in Settled

\* C12: scanWorkspace gives, for a file larger than maxFileSize KB (and
\* analysed: enabled, not excluded, readable), a result whose only Issue is
\* file-too-large and whose metrics are all zero
C12_OversizedResult ==
    (bpc = "returned" /\ mode = "scanWorkspace" /\ config.enabled) =>
        \A f \in DOMAIN files :
            (/\ files[f].readable
             /\ files[f].size > config.maxFileSize * 1024
             /\ ~UnderExcludedDir(files[f].path))
            => \E i \in DOMAIN scanResult.fileResults :
                  /\ scanResult.fileResults[i].file = f
                  /\ scanResult.fileResults[i].issues = <<fileTooLargeIssue>>
                  /\ scanResult.fileResults[i].metrics =
                        [complexity |-> 0, maintainability |-> 0, duplication |-> 0]

\* the batch a file belongs to, counted from 0
batchOf(f) == (f - 1) \div BatchWidth

\* C14: a file's task has started only if every file of the batches before
\* has settled, and the tasks in progress never outnumber a batch
C14_BatchesSequential ==
    /\ \A f, g \in DOMAIN files :
          (batchOf(g) < batchOf(f) /\ task[f] # "idle") => task[g] \in Settled
    /\ Cardinality({f \in DOMAIN files : task[f] \in InProgress}) <= BatchWidth

\* a task of the second batch is in progress after a first batch in which
\* one task returned and one ended in its catch block
C14_Witness ==
    /\ \E f \in DOMAIN files : batchOf(f) = 1 /\ task[f] \in InProgress
    /\ \E g, h \in DOMAIN files :
          /\ batchOf(g) = 0 /\ task[g] = "done"
          /\ batchOf(h) = 0 /\ task[h] = "failed"

\* C15: when a file of a batch scan cannot be opened, scanWorkspace returns
\* without an entry for it and with an entry for every file that can
C15_FailureIsolation ==
    (bpc = "returned" /\ mode = "scanWorkspace"
        /\ \E f \in DOMAIN files : ~files[f].readable) =>
        \A g \in DOMAIN files :
            files[g].readable <=>
                \E i \in DOMAIN scanResult.fileResults :
                    scanResult.fileResults[i].file = g

\* C16: at every moment of scanWorkspace the running total of issues is the
\* sum over the tasks that returned a result, and what it returns has
\* totalFiles = fileResults.length, totalIssues = the sum of the entries'
\* issue counts, and an entry for exactly the tasks that returned a result
C16_LinearizableAggregation ==
    mode = "scanWorkspace" =>
        LET done == {f \in DOMAIN files : task[f] = "done"}
            results == scanResult.fileResults
        IN  /\ \A f \in DOMAIN files : (returned[f] # <<>>) <=> f \in done
            /\ totals.issues = SumOver([f \in done |-> Len(returned[f][1].issues)], done)
            /\ bpc = "returned" =>
                  /\ scanResult.totalFiles = Len(results)
                  /\ scanResult.totalIssues =
                        SumOver([i \in DOMAIN results |-> Len(results[i].issues)],
                                DOMAIN results)
                  /\ {results[i].file : i \in DOMAIN results} = done
                  /\ Len(results) = Cardinality(done)

\* scanWorkspace has returned after a batch of two files that both went
\* through analyzeFile, the later one with Issues found
C16_Witness ==
    /\ bpc = "returned"
    /\ mode = "scanWorkspace"
    /\ Len(files) >= 2
    /\ files[1].readable /\ files[2].readable
    /\ scanIssues # <<>>

\* the patterns of a table that match somewhere on a line
MatchingIn(patterns, line) ==
    \E j \in DOMAIN line, n \in DOMAIN patterns : TokenMatches(patterns[n], line[j])

\* C19: every line of the analysed text that a secret, SQL or sink pattern
\* matches has a Finding of that table's rule with its line number, whatever
\* came before on the same SecurityRules instance
C19_MatchSufficient ==
    calls > 0 =>
        \A i \in DOMAIN ruleText :
            /\ MatchingIn(secretPatterns, ruleText[i]) =>
                  Issue(i, "no-hardcoded-secrets", "error", "security")
                      \in Range(ruleIssues)
            /\ MatchingIn(sqlInjectionPatterns, ruleText[i]) =>
                  Issue(i, "no-sql-injection", "error", "security")
                      \in Range(ruleIssues)
            /\ MatchingIn(xssPatterns, ruleText[i]) =>
                  Issue(i, "no-xss-vulnerability", "warning", "security")
                      \in Range(ruleIssues)

\* The rules of each catalog in the order analyze runs their checks
RuleOrder ==
    [security |-> <<"no-hardcoded-secrets", "no-sql-injection",
                    "no-xss-vulnerability", "no-eval", "no-innerHTML">>,
     performance |-> <<"no-for-in-on-arrays", "no-document-write",
                       "no-dom-queries-in-loops", "cache-array-length",
                       "check-event-listener-cleanup", "batch-dom-manipulation",
                       "no-sync-xhr", "avoid-large-object-literals",
                       "no-string-concat-in-loops">>,
     style |-> <<"prefer-let-const", "prefer-strict-equality",
                 "no-console-statements", "no-debugger-statements",
                 "no-magic-numbers">>]

RankOf(c, rule) == CHOOSE n \in DOMAIN RuleOrder[c] : RuleOrder[c][n] = rule

Categories == {"security", "performance", "style"}

\* C20 as stated: in the sequence a catalog returns, Findings come by
\* ascending line number, and by rule order within a line
C20_LineOrder ==
    scanned > 0 =>
        \A c \in Categories :
            \A n, m \in DOMAIN catalogIssues[c] :
                n < m =>
                    LET a == catalogIssues[c][n]
                        b == catalogIssues[c][m]
                    IN  \/ a.line < b.line
                        \/ a.line = b.line /\ RankOf(c, a.rule) <= RankOf(c, b.rule)

\* C20, amended: in the sequence a catalog returns, Findings come by rule
\* order, and by ascending line number within a rule
C20_RuleOrder ==
    scanned > 0 =>
        \A c \in Categories :
            \A n, m \in DOMAIN catalogIssues[c] :
                n < m =>
                    LET a == catalogIssues[c][n]
                        b == catalogIssues[c][m]
                    IN  \/ RankOf(c, a.rule) < RankOf(c, b.rule)
                        \/ a.rule = b.rule /\ a.line <= b.line

\* every catalog returned a Finding of a later line before one of an
\* earlier line, and the security catalog two Findings of one rule
C20_Witness ==
    /\ scanned > 0
    /\ \A c \in Categories :
          \E n, m \in DOMAIN catalogIssues[c] :
              n < m /\ catalogIssues[c][n].line > catalogIssues[c][m].line
    /\ \E n, m \in DOMAIN catalogIssues.security :
          /\ n < m
          /\ catalogIssues.security[n].rule = catalogIssues.security[m].rule
          /\ catalogIssues.security[n].line < catalogIssues.security[m].line

\* C21: in the Issue[] one analyze call returns, no two Issues have the same
\* rule and the same line
C21_OnePerRuleAndLine ==
    calls > 0 =>
        \A n, m \in DOMAIN ruleIssues :
            (ruleIssues[n].rule = ruleIssues[m].rule
                /\ ruleIssues[n].line = ruleIssues[m].line) => n = m

\* C22: the Issue[] analyzeFile returns for a file it ran the linter and
\* the detectors on holds no Issue of a category that the configuration
\* disables
C22_OnlyEnabledCategories ==
    (scanned > 0 /\ "eslint" \in scanRan) =>
        \A c \in Categories :
            ~config.rules[c] =>
                \A n \in DOMAIN scanIssues : scanIssues[n].category # c

\* the .cleanguardrc the last loadConfig met supplies a property / names a
\* rule category
FileSupplies(field) == lastFile.kind = "object" /\ field \in DOMAIN lastFile.fields
FileNamesRule(c) == FileSupplies("rules") /\ c \in DOMAIN lastFile.fields.rules

\* C23: in what loadConfig returns, every field that neither the editor
\* settings nor .cleanguardrc supplied has its documented default; a rule
\* category that the file's rules object does not name is enabled (stated
\* for a loader whose defaultConfig is as documented)
C23_DefaultsKept ==
    (loads > 0 /\ defaultConfig = DocumentedDefaults) =>
        /\ \A f \in {"enabled", "autoAnalyzeOnSave", "showStatusBar"} :
              (lastSettings[f] = "unset" /\ ~FileSupplies(f))
                  => loadedConfig[f] = DocumentedDefaults[f]
        /\ ~FileSupplies("maxFileSize") => loadedConfig.maxFileSize = maxFileSize
        /\ \A c \in Categories :
              (lastSettings[c] = "unset" /\ ~FileNamesRule(c))
                  => ruleValue(loadedConfig, c) = "true"

\* C29: defaultConfig is as its literal gives it, whatever loadConfig calls
\* were made
C29_DefaultConfigUnchanged == defaultConfig = DocumentedDefaults

\* C24: the history document holds the record list alone: its summary
\* property, where a write left one, carries no value computed from records
C24_SummaryNotPersisted ==
    file.kind = "ok" => file.summary = ZeroSummary

\* C25: in what scanWorkspace returns, qualityMetrics.qualityScore is the
\* composite formula of the complexity, maintainability and duplication
\* reported beside it, and the reported complexity is at least 1
C25_AggregateScore ==
    (bpc = "returned" /\ mode = "scanWorkspace") =>
        LET q == scanResult.qualityMetrics
        IN  /\ q.complexity >= 1
            /\ q.qualityScore =
                  calculateQualityScore(q.complexity, q.maintainability, q.duplication)

\* C26: what analyzeWorkspace returns has exactly one AnalysisResult for
\* every file that is not excluded and whose task did not fail; that of an
\* oversized file holds the file-too-large Issue alone and zero metrics
C26_AnalyzeWorkspaceResults ==
    (bpc = "returned" /\ mode = "analyzeWorkspace") =>
        \A f \in DOMAIN files :
            (task[f] = "done" /\ ~isFileExcluded(files[f].path, config)) =>
                LET entries == {i \in DOMAIN scanResult.fileResults :
                                  scanResult.fileResults[i].file = f}
                IN  /\ Cardinality(entries) = 1
                    /\ isFileTooLarge(files[f].size, config) =>
                          \A i \in entries :
                              scanResult.fileResults[i] = tooLargeResult(f)

NewestFirst(reviews) ==
    \A i, j \in DOMAIN reviews :
        i < j => reviews[i].timestamp >= reviews[j].timestamp

\* C27: when record calls follow one another under a clock that never goes
\* back, the persisted records are in non-increasing timestamp order, a call
\* that persists leaves its own record first, and the records the tree view
\* shows (the first five of the timeline loaded) are no older than any
\* record it leaves out
C27_NewestFirst ==
    /\ [](/\ NewestFirst(file.reviews)
          /\ Len(recentReviews(timelineData)) <= RecentShown
          /\ \A i \in DOMAIN recentReviews(timelineData) :
                \A j \in DOMAIN timelineData.reviews :
                    j > Len(recentReviews(timelineData)) =>
                        /\ recentReviews(timelineData)[i] = timelineData.reviews[i]
                        /\ timelineData.reviews[i].timestamp >=
                               timelineData.reviews[j].timestamp)
    /\ [][( /\ pc["p1"] = "loaded" /\ pc'["p1"] = "saved"
            /\ readOk["p1"] /\ writeOk'["p1"]
            /\ InsideWindow(review["p1"].timestamp, clock) )
          => /\ file'.reviews # <<>>
             /\ file'.reviews[1] = jsonReview(review["p1"])]_vars

\* six calls have persisted one after the other, the clock moved between
\* them, and the timeline loaded holds one record more than the view shows
C27_Witness ==
    /\ pc["p1"] = "done" /\ readOk["p1"] /\ writeOk["p1"]
    /\ Len(file.reviews) > RecentShown
    /\ file.reviews[1].timestamp > file.reviews[Len(file.reviews)].timestamp
    /\ file.reviews[1] = jsonReview(review["p1"])
    /\ timelineData.reviews = file.reviews
    /\ Len(recentReviews(timelineData)) < Len(timelineData.reviews)

\* C28: a record call whose read of the document failed, and whose write
\* succeeds, leaves in the document every record it held that is still
\* inside the retention window
C28_ReadFaultKeepsHistory ==
    [][\A p \in Procs :
          ( /\ pc[p] = "loaded" /\ pc'[p] = "saved"
            /\ ~readOk[p] /\ writeOk'[p]
            /\ file.kind = "ok" )
          => \A i \in DOMAIN file.reviews :
                 InsideWindow(file.reviews[i].timestamp, clock) =>
                     file.reviews[i] \in Range(file'.reviews)]_vars

\* C30: the listener calls analyzeFile, and goes on to saveReview, only
\* for a save event it met with enabled and autoAnalyzeOnSave both true and
\* a TypeScript or JavaScript document; a save event met with
\* autoAnalyzeOnSave false changes neither the diagnostics nor the number of
\* records handed to the history store
C30_SaveObeysConfiguration ==
    /\ [](lpc = "analyzeFile" =>
            /\ listenerConfig.enabled
            /\ listenerConfig.autoAnalyzeOnSave
            /\ document.languageId \in {"typescript", "javascript"})
    /\ [][( reviewCalls' # reviewCalls =>
               /\ listenerConfig.enabled
               /\ listenerConfig.autoAnalyzeOnSave
               /\ document.languageId \in {"typescript", "javascript"} )
          /\ ( ~listenerConfig'.autoAnalyzeOnSave =>
                  /\ diagnostics' = diagnostics
                  /\ reviewCalls' = reviewCalls )]_vars

====
